---- MODULE Spec2Model ----
(***************************************************************************)
(* HyperSim SDK (sdks/rust): the time-bounded response caches of the       *)
(* remote-calling clients.                                                 *)
(*                                                                         *)
(*   HyperEVMClient   clients/hyperevm.rs   simulate / cache_result        *)
(*   HyperCoreClient  clients/hypercore.rs  query_cross_layer_data         *)
(*   AIAnalyzer       ai/analyzer.rs        analyze_simulation             *)
(*                                                                         *)
(* Each client owns its own cache map behind a tokio RwLock; the clients   *)
(* share no state.  A behaviour of Spec therefore exercises one client,    *)
(* chosen by Init (variable client); the cache maps of the other two stay  *)
(* empty.  std::time::Instant is the integer variable now, advanced by     *)
(* Tick; every duration is a number of ticks.                              *)
(***************************************************************************)
EXTENDS Integers, Sequences, FiniteSets, TLC

(***************************************************************************)
(* Bounds of the model.                                                    *)
(***************************************************************************)
\* the clock runs from 0 to MaxTime
MaxTime == 2
\* config.cache_ttl is drawn from 0 .. MaxTtl
MaxTtl == 1
\* total number of client calls started in one behaviour
MaxCalls == 2
\* the entry-count thresholds of the cleanup sweeps, scaled down so that the
\* model's handful of keys can exceed them: 1000 (hyperevm.rs:321),
\* 500 (hypercore.rs:180), 1000 (analyzer.rs:308)
EvmMaxEntries == 1
CoreMaxEntries == 1
AiMaxEntries == 1
\* the analyzer's fixed ttl, Duration::from_secs(300) (analyzer.rs:301), in
\* ticks of 300 s
AiTtl == 1

\* total number of WebSocketClient calls started in one behaviour
MaxWsCalls == 5
\* WebSocketClientConfig.max_reconnect_attempts (5 by default), scaled down
MaxReconnectAttempts == 2
\* total number of steps the spawned background tasks take in one behaviour
MaxTaskSteps == 1

Tasks == {"t1", "t2"}
Clients == {"evm", "core", "ai", "plugins", "ws", "sdk"}

None == [tag |-> "None"]
Some(x) == [tag |-> "Some", val |-> x]

(***************************************************************************)
(* Requests.  Address and Wei are string wrappers (types/common.rs); the   *)
(* model's strings are drawn from Strs.                                    *)
(***************************************************************************)
Strs == {"x", "y"}
OptStrs == {None} \cup {Some(s) : s \in Strs}

\* the fields of TransactionRequest that generate_cache_key never reads, as
\* one record: gas_limit, gas_price, max_fee_per_gas,
\* max_priority_fee_per_gas, nonce, tx_type, chain_id
\* (numbers are written as decimal strings)
NoOtherFields ==
    [gas_limit |-> None, gas_price |-> None, max_fee_per_gas |-> None,
     max_priority_fee_per_gas |-> None, nonce |-> None, tx_type |-> None,
     chain_id |-> None]
OtherFields ==
    { NoOtherFields,
      [gas_limit |-> Some("21000"), gas_price |-> Some("x"),
       max_fee_per_gas |-> None, max_priority_fee_per_gas |-> None,
       nonce |-> None, tx_type |-> Some("0"), chain_id |-> None],
      [gas_limit |-> None, gas_price |-> None, max_fee_per_gas |-> Some("y"),
       max_priority_fee_per_gas |-> Some("x"), nonce |-> Some("1"),
       tx_type |-> Some("2"), chain_id |-> Some("1")] }

TransactionRequest ==
    [from : Strs, to : OptStrs, value : OptStrs, data : OptStrs,
     other : OtherFields]

\* the requests the cache behaviours issue: every string is "x", the other
\* fields are absent; and so is
\* data; they feed three different sequences to the hasher
SimTransactions ==
    { tx \in TransactionRequest :
        /\ tx.from = "x"
        /\ \A f \in {tx.to, tx.value} : f \in {None, Some("x")}
        /\ tx.data = None
        /\ tx.other = NoOtherFields }

(***************************************************************************)
(* std::hash: DefaultHasher::new() has fixed keys, so finish() is a        *)
(* function of the bytes written.  <str as Hash>::hash writes the bytes of *)
(* the string and then the byte 0xff, which no UTF-8 string contains, so   *)
(* the bytes written determine, and are determined by, the sequence of     *)
(* values hashed.  The hasher state is that sequence; finish() is taken    *)
(* to be collision-free, so the formatted key is the prefix paired with    *)
(* the sequence.                                                           *)
(***************************************************************************)
DefaultHasherNew == << >>
HashStr(hasher, s) == Append(hasher, s)
\* <bool as Hash>::hash writes one byte, 1 or 0
HashBool(hasher, b) == Append(hasher, IF b THEN "1" ELSE "0")

\* a plausible slip: the nonce is hashed as well
GenerateCacheKeyWithNonce(transaction) ==
    LET h1 == HashStr(DefaultHasherNew, transaction.from)
        h2 == IF transaction.to # None THEN HashStr(h1, transaction.to.val) ELSE h1
        h3 == IF transaction.value # None THEN HashStr(h2, transaction.value.val) ELSE h2
        h4 == IF transaction.data # None THEN HashStr(h3, transaction.data.val) ELSE h3
        h5 == IF transaction.other.nonce # None
              THEN HashStr(h4, transaction.other.nonce.val) ELSE h4
    IN  <<"tx_", h5>>

\* HyperEVMClient::generate_cache_key
GenerateCacheKey(transaction) ==
    LET h1 == HashStr(DefaultHasherNew, transaction.from)
        h2 == IF transaction.to # None THEN HashStr(h1, transaction.to.val) ELSE h1
        h3 == IF transaction.value # None THEN HashStr(h2, transaction.value.val) ELSE h2
        h4 == IF transaction.data # None THEN HashStr(h3, transaction.data.val) ELSE h3
    IN  <<"tx_", h4>>

\* CrossLayerQuery: query_type, addresses and, standing for the fields the
\* key never reads (block_range, filters, include_history), include_history
QueryTypes == {"AccountState", "EventLogs"}
CrossLayerQuery ==
    [query_type : QueryTypes, addresses : {<<"x">>, <<"x", "x">>},
     include_history : BOOLEAN]

RECURSIVE HashAddresses(_, _)
HashAddresses(hasher, addresses) ==
    IF addresses = << >> THEN hasher
    ELSE HashAddresses(HashStr(hasher, Head(addresses)), Tail(addresses))

\* HyperCoreClient::generate_cache_key; format!("{:?}", query_type) is the
\* variant's name
CoreGenerateCacheKey(query) ==
    <<"hypercore_",
      HashAddresses(HashStr(DefaultHasherNew, query.query_type), query.addresses)>>

(***************************************************************************)
(* Values.  Result<T>, serde_json::Value, the JSON-RPC exchange.           *)
(***************************************************************************)
Ok(v) == [tag |-> "Ok", val |-> v]
Err(kind) == [tag |-> "Err", kind |-> kind]

JNull == [t |-> "null"]
JBool(b) == [t |-> "bool", v |-> b]
JStr(s) == [t |-> "string", v |-> s]
\* a key that the JSON object does not have
Missing == [t |-> "missing"]

\* what the remote end can answer to hyperevm_simulate: the transport or the
\* HTTP status fails, the body is not JSON, or the body is a JSON object with
\* or without "error" and "result"
RpcResponses ==
    { [status |-> "http_error", body |-> Missing],
      [status |-> "bad_json", body |-> Missing],
      [status |-> "ok", body |-> [error |-> JStr("boom"), result |-> Missing]],
      [status |-> "ok", body |-> [error |-> Missing, result |-> Missing]],
      [status |-> "ok", body |-> [error |-> Missing, result |->
          [success |-> JBool(TRUE), gasUsed |-> JStr("21000"), error |-> Missing]]],
      [status |-> "ok", body |-> [error |-> Missing, result |->
          [success |-> JBool(FALSE), gasUsed |-> Missing, error |-> JStr("revert")]]] }

\* HyperEVMClient::send_rpc_request, given the remote end's answer
SendRpcRequest(response) ==
    IF response.status = "http_error" THEN Err("Network")
    ELSE IF response.status = "bad_json" THEN Err("Serialization")
    ELSE IF response.body.error # Missing THEN Err("Simulation")
    ELSE Ok(response.body)

\* HyperEVMClient::parse_simulation_response.  Of SimulationResult the model
\* keeps success, gas_used and error; return_data is read like gas_used and
\* the remaining fields are set to constants.
ParseSimulationResponse(body) ==
    IF body.result = Missing THEN Err("Simulation")
    ELSE LET result == body.result
             success == IF result.success.t = "bool" THEN result.success.v ELSE FALSE
             gas_used == IF result.gasUsed.t = "string" THEN result.gasUsed.v ELSE "0"
             error == IF ~success /\ result.error.t = "string"
                      THEN Some(result.error.v) ELSE None
         IN  Ok([success |-> success, gas_used |-> gas_used, error |-> error])

\* serde_json::to_value(&SimulationResult): the derived Serialize writes a
\* bool, a string and, for the Option, null or a string; it cannot fail
ToValue(result) ==
    Ok([success |-> JBool(result.success),
        gas_used |-> JStr(result.gas_used),
        error |-> IF result.error = None THEN JNull ELSE JStr(result.error.val)])

\* serde_json::from_value::<SimulationResult>: the derived Deserialize
\* fails on a field of the wrong JSON type
FromValue(data) ==
    IF /\ data.success.t = "bool"
       /\ data.gas_used.t = "string"
       /\ data.error.t \in {"null", "string"}
    THEN Ok([success |-> data.success.v,
             gas_used |-> data.gas_used.v,
             error |-> IF data.error.t = "null" THEN None ELSE Some(data.error.v)])
    ELSE Err("Serialization")

(***************************************************************************)
(* The cache of HyperEVMClient: HashMap<String, CacheEntry>, a function    *)
(* whose domain is the set of keys present.                                *)
(***************************************************************************)
EmptyMap == << >>
MapInsert(map, k, v) ==
    [x \in DOMAIN map \cup {k} |-> IF x = k THEN v ELSE map[x]]
MapLen(map) == Cardinality(DOMAIN map)

\* a plausible slip: the expiry test is left out
GetCachedResultNoExpiry(cache, key, t) ==
    IF key \in DOMAIN cache /\ FromValue(cache[key].data).tag = "Ok"
    THEN Some(FromValue(cache[key].data).val)
    ELSE None

\* HyperEVMClient::get_cached_result, under the read lock, at instant t
GetCachedResult(cache, key, t) ==
    IF key \in DOMAIN cache
    THEN IF cache[key].expires_at > t
         THEN IF FromValue(cache[key].data).tag = "Ok"
              THEN Some(FromValue(cache[key].data).val)
              ELSE None
         ELSE None
    ELSE None

\* a plausible slip: the ttl is left out of the expiry
NewCacheEntryWithoutTtl(serialized, t, ttl) ==
    [data |-> serialized, expires_at |-> t]

\* the CacheEntry that cache_result builds before it asks for the write lock
NewCacheEntry(serialized, t, ttl) ==
    [data |-> serialized, expires_at |-> t + ttl]

\* cache.retain(|_, v| v.expires_at > now)
Retain(cache, t) ==
    [k \in {x \in DOMAIN cache : cache[x].expires_at > t} |-> cache[k]]

\* a plausible slip: an entry already present for the key is kept
CacheResultLockedKeepingFirst(cache, key, entry, t) ==
    LET inserted == IF key \in DOMAIN cache THEN cache ELSE MapInsert(cache, key, entry)
    IN  IF MapLen(inserted) > EvmMaxEntries THEN Retain(inserted, t) ELSE inserted

\* a plausible slip: a replaced entry gets the new data and keeps its expiry
CacheResultLockedMerging(cache, key, entry, t) ==
    LET merged == IF key \in DOMAIN cache
                  THEN [entry EXCEPT !.expires_at = cache[key].expires_at]
                  ELSE entry
        inserted == MapInsert(cache, key, merged)
    IN  IF MapLen(inserted) > EvmMaxEntries THEN Retain(inserted, t) ELSE inserted

\* HyperEVMClient::cache_result from the write lock on: insert, then the
\* cleanup at instant t when the map has more than 1000 entries
CacheResultLocked(cache, key, entry, t) ==
    LET inserted == MapInsert(cache, key, entry)
    IN  IF MapLen(inserted) > EvmMaxEntries THEN Retain(inserted, t) ELSE inserted

(***************************************************************************)
(* The cache of HyperCoreClient: HashMap<String, CachedData>.              *)
(***************************************************************************)
\* the mock CrossLayerData that query_cross_layer_data builds: the query
\* and constants
MockCrossLayerData(query) == [query |-> query, api_version |-> "v1"]

\* HyperCoreClient::get_cached_data, under the read lock, at instant t
GetCachedData(cache, key, t) ==
    IF key \in DOMAIN cache
    THEN IF cache[key].expires_at > t THEN Some(cache[key]) ELSE None
    ELSE None

\* the CachedData that cache_data builds before it asks for the write lock
NewCachedData(data, t, ttl) == [data |-> data, expires_at |-> t + ttl]

\* HyperCoreClient::cache_data from the write lock on: insert, then the
\* cleanup at instant t when the map has more than 500 entries
CacheDataLocked(cache, key, cached, t) ==
    LET inserted == MapInsert(cache, key, cached)
    IN  IF MapLen(inserted) > CoreMaxEntries THEN Retain(inserted, t) ELSE inserted

(***************************************************************************)
(* The cache of AIAnalyzer: HashMap<String, CachedAnalysis>.               *)
(***************************************************************************)
\* the simulation results handed to analyze_simulation
AnalyzerInputs ==
    { [success |-> TRUE, gas_used |-> "21000", error |-> None],
      [success |-> TRUE, gas_used |-> "600000", error |-> None],
      [success |-> FALSE, gas_used |-> "0", error |-> Some("revert")] }

\* gas_used.parse::<u64>().unwrap_or(0) on the model's strings
ParseGas(s) ==
    IF s = "21000" THEN 21000 ELSE IF s = "600000" THEN 600000 ELSE 0

\* AIAnalyzer::generate_cache_key
AiGenerateCacheKey(simulation_result) ==
    LET h1 == HashBool(DefaultHasherNew, simulation_result.success)
        h2 == HashStr(h1, simulation_result.gas_used)
        h3 == IF simulation_result.error # None
              THEN HashStr(h2, simulation_result.error.val) ELSE h2
    IN  <<"sim_", h3>>

\* AIAnalyzer::perform_analysis: the fields of AIInsights computed from the
\* simulation result; the others are constants
PerformAnalysis(simulation_result) ==
    LET gas_used == ParseGas(simulation_result.gas_used)
        optimized_gas == gas_used - (gas_used \div 10)
    IN  [risk_level |-> IF simulation_result.success
                        THEN IF gas_used > 500000 THEN "Medium" ELSE "Low"
                        ELSE "High",
         current_gas_estimate |-> simulation_result.gas_used,
         optimized_gas_estimate |-> optimized_gas,
         gas_savings |-> gas_used - optimized_gas]

\* Instant::elapsed(), at instant t
Elapsed(timestamp, t) == IF t >= timestamp THEN t - timestamp ELSE 0

\* CachedAnalysis::is_expired, at instant t
IsExpired(cached, t) == Elapsed(cached.timestamp, t) > cached.ttl

\* AIAnalyzer::get_cached_analysis, under the read lock, at instant t
GetCachedAnalysis(cache, key, t) ==
    IF key \in DOMAIN cache /\ ~IsExpired(cache[key], t)
    THEN Some(cache[key])
    ELSE None

\* the CachedAnalysis that cache_analysis builds before it asks for the
\* write lock
NewCachedAnalysis(insights, t) ==
    [insights |-> insights, timestamp |-> t, ttl |-> AiTtl]

\* AIAnalyzer::cache_analysis from the write lock on: insert, then the
\* cleanup at instant t when the map has more than 1000 entries
CacheAnalysisLocked(cache, key, cached, t) ==
    LET inserted == MapInsert(cache, key, cached)
    IN  IF MapLen(inserted) > AiMaxEntries
        THEN [k \in {x \in DOMAIN inserted : ~IsExpired(inserted[x], t)} |-> inserted[k]]
        ELSE inserted

(***************************************************************************)
(* State.                                                                  *)
(***************************************************************************)
VARIABLES
    client,         \* the client this behaviour exercises
    cache_enabled,  \* config.cache_enabled
    cache_ttl,      \* config.cache_ttl, in ticks
    now,            \* std::time::Instant::now()
    evm_cache,      \* HyperEVMClient.cache
    core_cache,     \* HyperCoreClient.cache
    ai_cache,       \* AIAnalyzer.cache
    metrics,        \* HyperEVMClient.metrics
    calls,          \* number of client calls started so far
    pc,             \* per task: where its call stands
    cache_key,      \* per task: the local cache_key
    result,         \* per task: the local cached / simulation_result / data
    entry,          \* per task: the cache entry built for the insert
    ret,            \* per task: what its last completed call returned
    requests,       \* the requests handed to generate_cache_key (SpecKey)
    keys,           \* the keys it returned for them (SpecKey)
    system,         \* PluginSystem: "new" inside new(), then "ready" or "failed"
    plugins,        \* PluginSystem.plugins
    execution_order, \* PluginSystem.execution_order
    loaded_with,    \* per loaded plugin: the priority of its config and its
                    \* load sequence number (the code stores neither)
    plugins_lock,   \* the RwLock of PluginSystem.plugins
    order_lock,     \* the RwLock of PluginSystem.execution_order
    call,           \* per task: the arguments of its running call
    hook_i,         \* per task: position of its loop in execution_order
    invoked,        \* per task: the callbacks its last call invoked, in
                    \* order, with their outcomes
    ws_state,       \* WebSocketClient.state (ClientState)
    subscriptions,  \* WebSocketClient.subscriptions
    outbox,         \* the envelopes handed to send_message, in order
    state_lock,     \* the task holding the write lock of state
    subs_lock,      \* the task holding the write lock of subscriptions
    ping_tasks,     \* number of ping tasks spawned and not stopped
    handler_tasks,  \* number of message-handler tasks spawned and not stopped
    task_steps,     \* number of steps the background tasks have taken
    sdk_state,      \* HyperSimSDK.state (SDKState)
    sdk_metrics,    \* HyperSimSDK.request_counter and the counters of
                    \* HyperSimSDK.metrics
    trace           \* per task: what its facade call has done so far, in
                    \* order

vars == <<client, cache_enabled, cache_ttl, now, evm_cache, core_cache,
          ai_cache, metrics, calls, pc, cache_key, result, entry, ret,
          requests, keys, system, plugins, execution_order, loaded_with,
          plugins_lock, order_lock, call, hook_i, invoked,
          ws_state, subscriptions, outbox, state_lock, subs_lock,
          ping_tasks, handler_tasks, task_steps, sdk_state, sdk_metrics, trace>>
config == <<client, cache_enabled, cache_ttl>>
locals == <<pc, cache_key, result, entry, ret>>
keygen == <<requests, keys>>
caches == <<evm_cache, core_cache, ai_cache, metrics>>
plugsys == <<system, plugins, execution_order, loaded_with, plugins_lock, order_lock,
             call, hook_i, invoked>>
plugsys_shared == <<system, plugins, execution_order, loaded_with, plugins_lock, order_lock>>
facade == <<sdk_state, sdk_metrics, trace>>
bgtasks == <<ping_tasks, handler_tasks, task_steps>>
wsock == <<ws_state, subscriptions, outbox, state_lock, subs_lock, bgtasks>>

(***************************************************************************)
(* PluginSystem (plugins/system.rs).  A plugin is a Box<dyn Plugin>: its   *)
(* callbacks are trait methods that return Result<()>, and PluginSystem    *)
(* handles either outcome.  The model draws the outcome of every callback  *)
(* from CallbackOutcomes; the built-in LoggingPlugin and MetricsPlugin are *)
(* the case in which every outcome is Ok.  A failing callback reports a    *)
(* HyperSimError::Plugin.                                                  *)
(*                                                                         *)
(* The two RwLocks are modelled by their holders.  tokio's RwLock also     *)
(* queues waiters in order, which only removes interleavings.              *)
(***************************************************************************)
Unit == << >>
CallbackOutcomes == {Ok(Unit), Err("Plugin")}

\* the names create_plugin knows, and the name test_plugin_loading tries
KnownPlugins == {"logging", "metrics"}
PluginNames == KnownPlugins \cup {"test-logging"}

\* PluginConfig, without version and config, which load_plugin hands on
\* unread
Priorities == {5, 20, 30}
PluginConfig == [name : PluginNames, enabled : BOOLEAN, priority : Priorities]

\* PluginSystem::create_plugin
CreatePlugin(name) ==
    IF name \in KnownPlugins THEN Ok([name |-> name]) ELSE Err("Plugin")

Hooks == {"before_simulation", "after_simulation", "on_error"}

\* tokio::sync::RwLock
Unlocked == [writer |-> None, readers |-> {}]
CanRead(lock) == lock.writer = None
CanWrite(lock) == lock.writer = None /\ lock.readers = {}
ReadLocked(lock, t) == [lock EXCEPT !.readers = @ \cup {t}]
ReadUnlocked(lock, t) == [lock EXCEPT !.readers = @ \ {t}]
WriteLocked(lock, t) == [lock EXCEPT !.writer = Some(t)]

\* HashMap::remove
MapRemove(map, k) == [x \in DOMAIN map \ {k} |-> map[x]]

\* Vec::retain(|n| n != name)
RetainOthers(order, name) == SelectSeq(order, LAMBDA n : n # name)

\* Vec::insert(position, name), position counted from 0
VecInsert(order, position, name) ==
    SubSeq(order, 1, position) \o <<name>> \o SubSeq(order, position + 1, Len(order))

\* a plausible slip: the name is appended without the retain
UpdateExecutionOrderWithoutRetain(order, plugin_name, priority) ==
    VecInsert(order, Len(order), plugin_name)

\* a plausible slip: the new name goes to the front
UpdateExecutionOrderAtFront(order, plugin_name, priority) ==
    VecInsert(RetainOthers(order, plugin_name), 0, plugin_name)

\* PluginSystem::update_execution_order from its write lock on: the closure
\* given to position() returns false for every element and never reads
\* priority
UpdateExecutionOrder(order, plugin_name, priority) ==
    LET retained == RetainOthers(order, plugin_name)
        found == {i \in 1 .. Len(retained) : FALSE}
        position == IF found = {}
                    THEN Len(retained)
                    ELSE (CHOOSE i \in found : \A j \in found : i <= j) - 1
    IN  VecInsert(retained, position, plugin_name)

\* the sequence number of the next load
NextSeq(loaded) ==
    IF DOMAIN loaded = {} THEN 1
    ELSE 1 + (CHOOSE n \in {loaded[k].seq : k \in DOMAIN loaded} :
                 \A k \in DOMAIN loaded : loaded[k].seq <= n)

\* PluginSystem::new at the struct literal, before load_builtin_plugins
InitPluginSystem ==
    /\ system = "new"
    /\ plugins = EmptyMap
    /\ execution_order = << >>
    /\ loaded_with = EmptyMap
    /\ plugins_lock = Unlocked
    /\ order_lock = Unlocked
    /\ call = [t \in Tasks |-> None]
    /\ hook_i = [t \in Tasks |-> 0]
    /\ invoked = [t \in Tasks |-> << >>]

(***************************************************************************)
(* WebSocketClient (clients/websocket.rs).  state and subscriptions are    *)
(* behind one RwLock each; a read of state takes and drops its lock in one *)
(* step, a write lock held across an await is modelled by its holder.      *)
(***************************************************************************)
ConnectionState == {"Disconnected", "Connecting", "Connected", "Reconnecting", "Error"}

\* a plausible slip: the guard lets every state through
IsConnectedAlways(connection_state) == connection_state \in ConnectionState

\* ConnectionState::is_connected
IsConnected(connection_state) == connection_state = "Connected"

\* the subscription type and parameters the model's callers use
SubscriptionType == {"NewHeads"}
SubscriptionParams == {[filter |-> None, include_details |-> FALSE, limit |-> None]}

\* WebSocketClient::subscription_type_to_string
SubscriptionTypeToString(sub_type) ==
    CASE sub_type = "NewHeads" -> "newHeads"
      [] sub_type = "NewTransactions" -> "newPendingTransactions"
      [] sub_type = "PendingTransactions" -> "pendingTransactions"
      [] sub_type = "Logs" -> "logs"
      [] sub_type = "NewBlocks" -> "newHeads"
      [] sub_type = "SimulationResults" -> "simulationResults"
      [] sub_type = "GasPrices" -> "gasPrices"
      [] sub_type = "NetworkStatus" -> "networkStatus"

\* {:x}: the hexadecimal digits of n, most significant first
RECURSIVE LowerHex(_)
LowerHex(n) == IF n < 16 THEN <<n>> ELSE LowerHex(n \div 16) \o <<n % 16>>

\* {:08x}: at least 8 digits, padded with zeros on the left
RECURSIVE ZeroPad(_, _)
ZeroPad(digits, width) ==
    IF Len(digits) >= width THEN digits ELSE ZeroPad(<<0>> \o digits, width)

\* a plausible slip: the id is formatted from the counter before the
\* increment is stored, and the increment is lost
GenerateSubscriptionIdStale(state) ==
    [state |-> state,
     id |-> <<"sub_", ZeroPad(LowerHex(state.message_id_counter + 1), 8)>>]

\* WebSocketClient::generate_subscription_id under the write lock of state:
\* the new state and the id
GenerateSubscriptionId(state) ==
    LET counter == state.message_id_counter + 1
    IN  [state |-> [state EXCEPT !.message_id_counter = counter],
         id |-> <<"sub_", ZeroPad(LowerHex(counter), 8)>>]

\* the WSSubscription and the eth_subscribe WSMessage that subscribe builds
NewSubscription(id, subscription_type, params, t) ==
    [id |-> id, subscription_type |-> subscription_type, params |-> params,
     active |-> TRUE, created_at |-> t]
SubscribeMessage(subscription) ==
    [id |-> Some(subscription.id), method |-> "eth_subscribe",
     params |-> <<SubscriptionTypeToString(subscription.subscription_type),
                  subscription.params>>]
UnsubscribeMessage(subscription_id) ==
    [id |-> Some(subscription_id), method |-> "eth_unsubscribe",
     params |-> <<subscription_id>>]

\* HyperSimError::websocket(message)
WebSocketError(message) == [tag |-> "Err", kind |-> "WebSocket", message |-> message]

\* WebSocketClientConfig.reconnect_backoff (2.0 by default)
ReconnectBackoff == 2

\* base ^ exponent, as f64::powi computes it for these small values
RECURSIVE Powi(_, _)
Powi(base, exponent) == IF exponent = 0 THEN 1 ELSE base * Powi(base, exponent - 1)

\* handle_reconnection: the delay in milliseconds for the counter value
\* it is given
BackoffDelay(reconnect_attempts) == Powi(ReconnectBackoff, reconnect_attempts) * 1000

\* WebSocketClient::get_subscriptions: the values of the registry
GetSubscriptions(registry) == {registry[id] : id \in DOMAIN registry}

\* a subscription id that is never issued
UnknownId == <<"sub_", << >> >>

\* WebSocketClient::new
InitWebSocketClient ==
    /\ ws_state = [connection_state |-> "Disconnected", last_ping |-> None,
                   reconnect_attempts |-> 0, message_id_counter |-> 0]
    /\ subscriptions = EmptyMap
    /\ outbox = << >>
    /\ state_lock = None
    /\ subs_lock = None
    /\ ping_tasks = 0
    /\ handler_tasks = 0
    /\ task_steps = 0

\* HyperSimSDK::new: the SDKState, the request counter and the metrics
InitSdk ==
    /\ sdk_state = [initialized |-> TRUE, active_subscriptions |-> << >>]
    /\ sdk_metrics = [request_counter |-> 0, total_requests |-> 0,
                      successful_requests |-> 0, failed_requests |-> 0]
    /\ trace = [t \in Tasks |-> << >>]

\* a client right after new(): empty caches, zeroed metrics, no call running
InitClient ==
    /\ now = 0
    /\ evm_cache = EmptyMap
    /\ core_cache = EmptyMap
    /\ ai_cache = EmptyMap
    /\ metrics = [total_requests |-> 0, cache_hits |-> 0, errors |-> 0]
    /\ calls = 0
    /\ pc = [t \in Tasks |-> "idle"]
    /\ cache_key = [t \in Tasks |-> None]
    /\ result = [t \in Tasks |-> None]
    /\ entry = [t \in Tasks |-> None]
    /\ ret = [t \in Tasks |-> None]
    /\ InitPluginSystem
    /\ InitWebSocketClient
    /\ InitSdk

Init ==
    /\ client \in Clients
    /\ cache_enabled \in (IF client \in {"evm", "core", "sdk"} THEN BOOLEAN ELSE {TRUE})
    /\ cache_ttl \in (IF client \in {"evm", "core"} THEN 0 .. MaxTtl
                      ELSE IF client = "sdk" THEN {MaxTtl} ELSE {AiTtl})
    /\ InitClient
    /\ requests = << >>
    /\ keys = << >>

\* the clock advances.  The plugin system never reads it, and the WebSocket
\* client reads it only to stamp created_at and last_ping, which nothing
\* reads back: for these two the clock stands still.
Tick ==
    /\ client \notin {"plugins", "ws"}
    /\ now < MaxTime
    /\ now' = now + 1
    /\ UNCHANGED <<config, facade, evm_cache, core_cache, ai_cache, metrics, calls, locals, keygen, plugsys, wsock>>

\* the call of task t returns r: its locals go out of scope
Return(t, r) ==
    /\ pc' = [pc EXCEPT ![t] = "idle"]
    /\ cache_key' = [cache_key EXCEPT ![t] = None]
    /\ result' = [result EXCEPT ![t] = None]
    /\ entry' = [entry EXCEPT ![t] = None]
    /\ ret' = [ret EXCEPT ![t] = r]

(***************************************************************************)
(* HyperEVMClient::simulate, one action per stretch that ends at the       *)
(* remote call, at the write lock of the cache, or at the return.  The     *)
(* metrics lock that simulate takes just before it returns guards          *)
(* counters that no other code reads, so its update is part of the action  *)
(* that returns.                                                           *)
(***************************************************************************)
\* simulate(transaction) up to the remote call: the key, get_cached_result
\* under the read lock and, on a hit, cache_hits += 1 and the return of the
\* cached result
EvmSimulateTx(t, transaction) ==
    /\ client = "evm"
    /\ pc[t] = "idle"
    /\ calls < MaxCalls
    /\ calls' = calls + 1
    /\ LET key == GenerateCacheKey(transaction)
           cached == GetCachedResult(evm_cache, key, now)
       IN  IF cached # None
           THEN /\ metrics' = [metrics EXCEPT !.cache_hits = @ + 1]
                /\ Return(t, Ok(cached.val))
           ELSE /\ pc' = [pc EXCEPT ![t] = "rpc"]
                /\ cache_key' = [cache_key EXCEPT ![t] = key]
                /\ ret' = [ret EXCEPT ![t] = None]
                /\ UNCHANGED <<metrics, result, entry>>
    /\ UNCHANGED <<config, facade, now, evm_cache, core_cache, ai_cache, keygen, plugsys, wsock>>

EvmSimulate(t) == \E transaction \in SimTransactions : EvmSimulateTx(t, transaction)

\* a plausible slip: the result is cached whatever cache_enabled says
EvmSendRpcIgnoringFlag(t) ==
    /\ client = "evm"
    /\ pc[t] = "rpc"
    /\ \E response \in RpcResponses :
         LET sent == SendRpcRequest(response)
             parsed == IF sent.tag = "Ok" THEN ParseSimulationResponse(sent.val) ELSE sent
         IN  IF parsed.tag = "Err"
             THEN Return(t, parsed)
             ELSE /\ result' = [result EXCEPT ![t] = parsed.val]
                  /\ entry' = [entry EXCEPT ![t] =
                         NewCacheEntry(ToValue(parsed.val).val, now, cache_ttl)]
                  /\ pc' = [pc EXCEPT ![t] = "cache_result"]
                  /\ UNCHANGED <<cache_key, ret>>
    /\ UNCHANGED <<config, facade, now, evm_cache, core_cache, ai_cache, metrics, calls, keygen, plugsys, wsock>>

\* the miss branch from the remote call to the write lock of cache_result:
\* the request is built (it cannot fail), the remote call is made and its
\* answer parsed; an error returns at once; with the cache enabled the
\* result is serialized and the entry stamped now + ttl; with the cache
\* disabled total_requests += 1 and the result is returned
EvmSendRpc(t) ==
    /\ client = "evm"
    /\ pc[t] = "rpc"
    /\ \E response \in RpcResponses :
         LET sent == SendRpcRequest(response)
             parsed == IF sent.tag = "Ok" THEN ParseSimulationResponse(sent.val) ELSE sent
             serialized == ToValue(parsed.val)
         IN  IF parsed.tag = "Err"
             THEN Return(t, parsed) /\ UNCHANGED metrics
             ELSE IF cache_enabled
             THEN /\ result' = [result EXCEPT ![t] = parsed.val]
                  /\ IF serialized.tag = "Ok"
                     THEN entry' = [entry EXCEPT ![t] =
                                NewCacheEntry(serialized.val, now, cache_ttl)]
                     ELSE entry' = entry
                  /\ pc' = [pc EXCEPT ![t] = "cache_result"]
                  /\ UNCHANGED <<metrics, cache_key, ret>>
             ELSE /\ metrics' = [metrics EXCEPT !.total_requests = @ + 1]
                  /\ Return(t, Ok(parsed.val))
    /\ UNCHANGED <<config, facade, now, evm_cache, core_cache, ai_cache, calls, keygen, plugsys, wsock>>

\* cache_result under the write lock (insert and cleanup; nothing when the
\* serialization failed), then total_requests += 1 and the return
EvmCacheResult(t) ==
    /\ client = "evm"
    /\ pc[t] = "cache_result"
    /\ evm_cache' = IF entry[t] # None
                    THEN CacheResultLocked(evm_cache, cache_key[t], entry[t], now)
                    ELSE evm_cache
    /\ metrics' = [metrics EXCEPT !.total_requests = @ + 1]
    /\ Return(t, Ok(result[t]))
    /\ UNCHANGED <<config, facade, now, core_cache, ai_cache, calls, keygen, plugsys, wsock>>

(***************************************************************************)
(* HyperCoreClient::query_cross_layer_data.                                *)
(***************************************************************************)
\* query_cross_layer_data(query) up to the write lock of cache_data: the
\* key, get_cached_data under the read lock and, on a hit, the return of the
\* cached data; on a miss the mock data is built and, with the cache
\* enabled, the entry is stamped now + ttl; with the cache disabled the data
\* is returned
CoreQueryOf(t, query) ==
    /\ client = "core"
    /\ pc[t] = "idle"
    /\ calls < MaxCalls
    /\ calls' = calls + 1
    /\ LET key == CoreGenerateCacheKey(query)
           cached == GetCachedData(core_cache, key, now)
           data == MockCrossLayerData(query)
       IN  IF cached # None
           THEN Return(t, Ok(cached.val.data))
           ELSE IF cache_enabled
           THEN /\ pc' = [pc EXCEPT ![t] = "cache_data"]
                /\ cache_key' = [cache_key EXCEPT ![t] = key]
                /\ result' = [result EXCEPT ![t] = data]
                /\ entry' = [entry EXCEPT ![t] = NewCachedData(data, now, cache_ttl)]
                /\ ret' = [ret EXCEPT ![t] = None]
           ELSE Return(t, Ok(data))
    /\ UNCHANGED <<config, facade, now, evm_cache, core_cache, ai_cache, metrics, keygen, plugsys, wsock>>

CoreQuery(t) == \E query \in CrossLayerQuery : CoreQueryOf(t, query)

\* cache_data under the write lock (insert and cleanup), then the return
CoreCacheData(t) ==
    /\ client = "core"
    /\ pc[t] = "cache_data"
    /\ core_cache' = CacheDataLocked(core_cache, cache_key[t], entry[t], now)
    /\ Return(t, Ok(result[t]))
    /\ UNCHANGED <<config, facade, now, evm_cache, ai_cache, metrics, calls, keygen, plugsys, wsock>>

(***************************************************************************)
(* AIAnalyzer::analyze_simulation.                                         *)
(***************************************************************************)
\* analyze_simulation(simulation_result) up to the write lock of
\* cache_analysis: the key, get_cached_analysis under the read lock and, on
\* a hit, the return of the cached insights; on a miss the analysis is
\* performed (it cannot fail) and the entry is stamped with now and the ttl
AiAnalyzeSimulationOf(t, simulation_result) ==
    /\ client = "ai"
    /\ pc[t] = "idle"
    /\ calls < MaxCalls
    /\ calls' = calls + 1
    /\ LET key == AiGenerateCacheKey(simulation_result)
           cached == GetCachedAnalysis(ai_cache, key, now)
           insights == PerformAnalysis(simulation_result)
       IN  IF cached # None
           THEN Return(t, Ok(cached.val.insights))
           ELSE /\ pc' = [pc EXCEPT ![t] = "cache_analysis"]
                /\ cache_key' = [cache_key EXCEPT ![t] = key]
                /\ result' = [result EXCEPT ![t] = insights]
                /\ entry' = [entry EXCEPT ![t] = NewCachedAnalysis(insights, now)]
                /\ ret' = [ret EXCEPT ![t] = None]
    /\ UNCHANGED <<config, facade, now, evm_cache, core_cache, ai_cache, metrics, keygen, plugsys, wsock>>

AiAnalyzeSimulation(t) ==
    \E simulation_result \in AnalyzerInputs : AiAnalyzeSimulationOf(t, simulation_result)

\* cache_analysis under the write lock (insert and cleanup), then the return
AiCacheAnalysis(t) ==
    /\ client = "ai"
    /\ pc[t] = "cache_analysis"
    /\ ai_cache' = CacheAnalysisLocked(ai_cache, cache_key[t], entry[t], now)
    /\ Return(t, Ok(result[t]))
    /\ UNCHANGED <<config, facade, now, evm_cache, core_cache, metrics, calls, keygen, plugsys, wsock>>

(***************************************************************************)
(* PluginSystem: one action per stretch of a call that ends where the call *)
(* waits for a lock, awaits a hook callback, or returns.  initialize,      *)
(* shutdown and health_check callbacks touch nothing shared and are part   *)
(* of the step that awaits them.                                           *)
(***************************************************************************)
\* the call of task t returns r
PluginReturn(t, r) ==
    /\ pc' = [pc EXCEPT ![t] = "idle"]
    /\ ret' = [ret EXCEPT ![t] = r]
    /\ call' = [call EXCEPT ![t] = None]
    /\ hook_i' = [hook_i EXCEPT ![t] = 0]

\* a call of task t starts
PluginCall(t) ==
    /\ client = "plugins"
    /\ system = "ready"
    /\ pc[t] = "idle"
    /\ calls < MaxCalls
    /\ calls' = calls + 1

\* PluginSystem::new from load_builtin_plugins on: logging with priority 10,
\* then metrics with priority 20, through load_plugin; a failing load fails
\* new().  Nothing else can reach the system before new() returns.
LoadBuiltinPlugins ==
    /\ client \in {"plugins", "sdk"}
    /\ system = "new"
    /\ \E logging \in CallbackOutcomes, metrics_ \in CallbackOutcomes :
         IF logging.tag = "Ok" /\ metrics_.tag = "Ok"
         THEN /\ system' = "ready"
              /\ plugins' = MapInsert(MapInsert(plugins, "logging", CreatePlugin("logging").val),
                                      "metrics", CreatePlugin("metrics").val)
              /\ execution_order' =
                     UpdateExecutionOrder(UpdateExecutionOrder(execution_order, "logging", 10),
                                          "metrics", 20)
              /\ loaded_with' = MapInsert(MapInsert(loaded_with, "logging", [priority |-> 10, seq |-> 1]),
                                          "metrics", [priority |-> 20, seq |-> 2])
         ELSE /\ system' = "failed"
              /\ UNCHANGED <<plugins, execution_order, loaded_with>>
    /\ UNCHANGED <<config, facade, now, caches, calls, locals, keygen, plugins_lock, order_lock,
                   call, hook_i, invoked, wsock>>

\* a plausible slip: the plugin is installed before it is initialized, and
\* stays installed when initialize fails
LoadPluginOfInstallingFirst(t, cfg) ==
    /\ PluginCall(t)
    /\ IF ~cfg.enabled
       THEN /\ PluginReturn(t, Ok(Unit))
            /\ invoked' = [invoked EXCEPT ![t] = << >>]
            /\ UNCHANGED <<plugins, execution_order>>
       ELSE /\ plugins' = MapInsert(plugins, cfg.name, [name |-> cfg.name])
            /\ execution_order' = UpdateExecutionOrder(execution_order, cfg.name, cfg.priority)
            /\ IF CreatePlugin(cfg.name).tag = "Err"
               THEN /\ PluginReturn(t, CreatePlugin(cfg.name))
                    /\ invoked' = [invoked EXCEPT ![t] = << >>]
               ELSE \E outcome \in CallbackOutcomes :
                      /\ invoked' = [invoked EXCEPT ![t] =
                             <<[plugin |-> cfg.name, callback |-> "initialize",
                                outcome |-> outcome]>>]
                      /\ PluginReturn(t, outcome)
    /\ UNCHANGED <<config, facade, now, caches, cache_key, result, entry, keygen, system,
                   loaded_with, plugins_lock, order_lock, wsock>>

\* load_plugin(config) up to the write lock of plugins: the enabled test,
\* create_plugin and initialize
LoadPluginOf(t, cfg) ==
    /\ PluginCall(t)
    /\ IF ~cfg.enabled
       THEN /\ PluginReturn(t, Ok(Unit))
            /\ invoked' = [invoked EXCEPT ![t] = << >>]
       ELSE IF CreatePlugin(cfg.name).tag = "Err"
       THEN /\ PluginReturn(t, CreatePlugin(cfg.name))
            /\ invoked' = [invoked EXCEPT ![t] = << >>]
       ELSE \E outcome \in CallbackOutcomes :
              /\ invoked' = [invoked EXCEPT ![t] =
                     <<[plugin |-> cfg.name, callback |-> "initialize", outcome |-> outcome]>>]
              /\ IF outcome.tag = "Err"
                 THEN PluginReturn(t, outcome)
                 ELSE /\ pc' = [pc EXCEPT ![t] = "load_store"]
                      /\ call' = [call EXCEPT ![t] =
                             [op |-> "load_plugin", config |-> cfg,
                              plugin |-> CreatePlugin(cfg.name).val]]
                      /\ UNCHANGED <<ret, hook_i>>
    /\ UNCHANGED <<config, facade, now, caches, cache_key, result, entry, keygen, system, plugins,
                   execution_order, loaded_with, plugins_lock, order_lock, wsock>>

LoadPlugin(t) == \E cfg \in PluginConfig : LoadPluginOf(t, cfg)

\* load_plugin: plugins.write() and plugins.insert; the guard lives to the
\* end of the function
LoadPluginStore(t) ==
    /\ pc[t] = "load_store"
    /\ CanWrite(plugins_lock)
    /\ plugins_lock' = WriteLocked(plugins_lock, t)
    /\ plugins' = MapInsert(plugins, call[t].config.name, call[t].plugin)
    /\ loaded_with' = MapInsert(loaded_with, call[t].config.name,
                                [priority |-> call[t].config.priority, seq |-> NextSeq(loaded_with)])
    /\ pc' = [pc EXCEPT ![t] = "load_order"]
    /\ UNCHANGED <<config, facade, now, caches, calls, cache_key, result, entry, ret, keygen, system,
                   execution_order, order_lock, call, hook_i, invoked, wsock>>

\* load_plugin: update_execution_order under the write lock of
\* execution_order, then the return, which releases plugins
LoadPluginOrder(t) ==
    /\ pc[t] = "load_order"
    /\ CanWrite(order_lock)
    /\ execution_order' = UpdateExecutionOrder(execution_order, call[t].config.name,
                                               call[t].config.priority)
    /\ plugins_lock' = Unlocked
    /\ PluginReturn(t, Ok(Unit))
    /\ UNCHANGED <<config, facade, now, caches, calls, cache_key, result, entry, keygen, system,
                   plugins, loaded_with, order_lock, invoked, wsock>>

\* a plausible slip: the guard of execution_order is not kept for the loop
ExecuteHookWithoutOrderLock(t, hook) ==
    /\ PluginCall(t)
    /\ pc' = [pc EXCEPT ![t] = "exec_plugins"]
    /\ call' = [call EXCEPT ![t] = [op |-> hook, loaded |-> DOMAIN plugins]]
    /\ invoked' = [invoked EXCEPT ![t] = << >>]
    /\ UNCHANGED <<config, facade, now, caches, cache_key, result, entry, ret, keygen, system,
                   plugins, execution_order, loaded_with, plugins_lock, order_lock, hook_i,
                   wsock>>

\* execute_before_simulation / execute_after_simulation / execute_on_error:
\* execution_order.read().  call[t].loaded remembers, for the properties,
\* which plugins were loaded when the call took the lock.
ExecuteHook(t, hook) ==
    /\ PluginCall(t)
    /\ CanRead(order_lock)
    /\ order_lock' = ReadLocked(order_lock, t)
    /\ pc' = [pc EXCEPT ![t] = "exec_plugins"]
    /\ call' = [call EXCEPT ![t] = [op |-> hook, loaded |-> DOMAIN plugins]]
    /\ invoked' = [invoked EXCEPT ![t] = << >>]
    /\ UNCHANGED <<config, facade, now, caches, cache_key, result, entry, ret, keygen, system,
                   plugins, execution_order, loaded_with, plugins_lock, hook_i, wsock>>

Execute(t) == \E hook \in Hooks : ExecuteHook(t, hook)

\* a plausible slip: the loop runs without the read guard of the plugin map
ExecutePluginsWithoutLock(t) ==
    /\ pc[t] = "exec_plugins"
    /\ hook_i' = [hook_i EXCEPT ![t] = 1]
    /\ pc' = [pc EXCEPT ![t] = "exec_loop"]
    /\ UNCHANGED <<config, facade, now, caches, calls, cache_key, result, entry, ret, keygen, system,
                   plugins, execution_order, loaded_with, plugins_lock, order_lock, call,
                   invoked, wsock>>

\* execute_*: plugins.read()
ExecutePlugins(t) ==
    /\ pc[t] = "exec_plugins"
    /\ CanRead(plugins_lock)
    /\ plugins_lock' = ReadLocked(plugins_lock, t)
    /\ hook_i' = [hook_i EXCEPT ![t] = 1]
    /\ pc' = [pc EXCEPT ![t] = "exec_loop"]
    /\ UNCHANGED <<config, facade, now, caches, calls, cache_key, result, entry, ret, keygen, system,
                   plugins, execution_order, loaded_with, order_lock, call, invoked, wsock>>

\* execute_*: the head of the for loop: at the end of execution_order both
\* guards are dropped and Ok(()) is returned; a name with a plugin has its
\* callback called; a name without one is skipped
ExecuteLoop(t) ==
    /\ pc[t] = "exec_loop"
    /\ IF hook_i[t] > Len(execution_order)
       THEN /\ order_lock' = ReadUnlocked(order_lock, t)
            /\ plugins_lock' = ReadUnlocked(plugins_lock, t)
            /\ PluginReturn(t, Ok(Unit))
       ELSE /\ IF execution_order[hook_i[t]] \in DOMAIN plugins
               THEN pc' = [pc EXCEPT ![t] = "exec_hook"] /\ UNCHANGED hook_i
               ELSE hook_i' = [hook_i EXCEPT ![t] = @ + 1] /\ UNCHANGED pc
            /\ UNCHANGED <<order_lock, plugins_lock, ret, call>>
    /\ UNCHANGED <<config, facade, now, caches, calls, cache_key, result, entry, keygen, system,
                   plugins, execution_order, loaded_with, invoked, wsock>>

\* a plausible slip: the error of a callback is propagated with `?`
ExecuteHookDonePropagating(t) ==
    /\ pc[t] = "exec_hook"
    /\ \E outcome \in CallbackOutcomes :
         /\ invoked' = [invoked EXCEPT ![t] = Append(@,
                [plugin |-> execution_order[hook_i[t]], callback |-> call[t].op,
                 outcome |-> outcome])]
         /\ IF outcome.tag = "Err"
            THEN /\ order_lock' = ReadUnlocked(order_lock, t)
                 /\ plugins_lock' = ReadUnlocked(plugins_lock, t)
                 /\ PluginReturn(t, outcome)
            ELSE /\ hook_i' = [hook_i EXCEPT ![t] = @ + 1]
                 /\ pc' = [pc EXCEPT ![t] = "exec_loop"]
                 /\ UNCHANGED <<order_lock, plugins_lock, ret, call>>
    /\ UNCHANGED <<config, facade, now, caches, calls, cache_key, result, entry, keygen, system,
                   plugins, execution_order, loaded_with, wsock>>

\* execute_*: the callback awaited by the loop finishes; an error is logged
\* and the loop goes on
ExecuteHookDone(t) ==
    /\ pc[t] = "exec_hook"
    /\ \E outcome \in CallbackOutcomes :
         invoked' = [invoked EXCEPT ![t] = Append(@,
                [plugin |-> execution_order[hook_i[t]], callback |-> call[t].op,
                 outcome |-> outcome])]
    /\ hook_i' = [hook_i EXCEPT ![t] = @ + 1]
    /\ pc' = [pc EXCEPT ![t] = "exec_loop"]
    /\ UNCHANGED <<config, facade, now, caches, calls, cache_key, result, entry, ret, keygen, system,
                   plugins, execution_order, loaded_with, plugins_lock, order_lock, call, wsock>>

\* a plausible slip: the error of the shutdown callback is propagated with
\* `?`, before execution_order is updated
UnloadPluginOrderPropagating(t) ==
    /\ pc[t] = "unload_order"
    /\ IF invoked[t] # << >> /\ invoked[t][1].outcome.tag = "Err"
       THEN /\ plugins_lock' = Unlocked
            /\ PluginReturn(t, invoked[t][1].outcome)
            /\ UNCHANGED execution_order
       ELSE /\ CanWrite(order_lock)
            /\ execution_order' = RetainOthers(execution_order, call[t].name)
            /\ plugins_lock' = Unlocked
            /\ PluginReturn(t, Ok(Unit))
    /\ UNCHANGED <<config, facade, now, caches, calls, cache_key, result, entry, keygen, system,
                   plugins, loaded_with, order_lock, invoked, wsock>>

\* unload_plugin(name): plugins.write(), plugins.remove(name) and, for a
\* plugin that was there, its shutdown callback, whose error is logged
UnloadPluginOf(t, name) ==
    /\ PluginCall(t)
    /\ CanWrite(plugins_lock)
    /\ plugins_lock' = WriteLocked(plugins_lock, t)
    /\ IF name \in DOMAIN plugins
       THEN /\ plugins' = MapRemove(plugins, name)
            /\ loaded_with' = MapRemove(loaded_with, name)
            /\ \E outcome \in CallbackOutcomes :
                 invoked' = [invoked EXCEPT ![t] =
                     <<[plugin |-> name, callback |-> "shutdown", outcome |-> outcome]>>]
       ELSE /\ invoked' = [invoked EXCEPT ![t] = << >>]
            /\ UNCHANGED <<plugins, loaded_with>>
    /\ pc' = [pc EXCEPT ![t] = "unload_order"]
    /\ call' = [call EXCEPT ![t] = [op |-> "unload_plugin", name |-> name]]
    /\ UNCHANGED <<config, facade, now, caches, cache_key, result, entry, ret, keygen, system,
                   execution_order, order_lock, hook_i, wsock>>

UnloadPlugin(t) == \E name \in PluginNames : UnloadPluginOf(t, name)

\* unload_plugin: execution_order.write() and retain, then the return,
\* which releases both locks
UnloadPluginOrder(t) ==
    /\ pc[t] = "unload_order"
    /\ CanWrite(order_lock)
    /\ execution_order' = RetainOthers(execution_order, call[t].name)
    /\ plugins_lock' = Unlocked
    /\ PluginReturn(t, Ok(Unit))
    /\ UNCHANGED <<config, facade, now, caches, calls, cache_key, result, entry, keygen, system,
                   plugins, loaded_with, order_lock, invoked, wsock>>

\* the orders in which HashMap::drain can yield the plugins
DrainOrders(loaded) ==
    {order \in [1 .. Cardinality(DOMAIN loaded) -> DOMAIN loaded] :
        \A i \in DOMAIN order : \A j \in DOMAIN order : i # j => order[i] # order[j]}

\* shutdown(): plugins.write() and plugins.drain(): every plugin leaves the
\* map and has its shutdown callback called, whose error is logged
ShutdownPlugins(t) ==
    /\ PluginCall(t)
    /\ CanWrite(plugins_lock)
    /\ plugins_lock' = WriteLocked(plugins_lock, t)
    /\ \E order \in DrainOrders(plugins) :
         \E outcomes \in [DOMAIN order -> CallbackOutcomes] :
           invoked' = [invoked EXCEPT ![t] =
               [i \in DOMAIN order |->
                   [plugin |-> order[i], callback |-> "shutdown", outcome |-> outcomes[i]]]]
    /\ plugins' = EmptyMap
    /\ loaded_with' = EmptyMap
    /\ pc' = [pc EXCEPT ![t] = "shutdown_order"]
    /\ call' = [call EXCEPT ![t] = [op |-> "shutdown"]]
    /\ UNCHANGED <<config, facade, now, caches, cache_key, result, entry, ret, keygen, system,
                   execution_order, order_lock, hook_i, wsock>>

\* shutdown(): execution_order.write() and clear, then Ok(()), which
\* releases both locks
ShutdownOrder(t) ==
    /\ pc[t] = "shutdown_order"
    /\ CanWrite(order_lock)
    /\ execution_order' = << >>
    /\ plugins_lock' = Unlocked
    /\ PluginReturn(t, Ok(Unit))
    /\ UNCHANGED <<config, facade, now, caches, calls, cache_key, result, entry, keygen, system,
                   plugins, loaded_with, order_lock, invoked, wsock>>

\* a plausible slip: only the plugins whose probe succeeded are reported
HealthStatusHealthyOnly(probes) ==
    [name \in {n \in DOMAIN probes : probes[n].tag = "Ok"} |-> TRUE]

\* the map health_check builds from the outcomes of the probes
HealthStatus(probes) == [name \in DOMAIN probes |-> probes[name].tag = "Ok"]

\* health_check(): plugins.read(), one probe per plugin, the map of the
\* outcomes
HealthCheck(t) ==
    /\ PluginCall(t)
    /\ CanRead(plugins_lock)
    /\ \E probes \in [DOMAIN plugins -> CallbackOutcomes] :
         /\ invoked' = [invoked EXCEPT ![t] =
                <<[callback |-> "health_check", outcome |-> probes]>>]
         /\ PluginReturn(t, Ok(HealthStatus(probes)))
    /\ UNCHANGED <<config, facade, now, caches, cache_key, result, entry, keygen, system, plugins,
                   execution_order, loaded_with, plugins_lock, order_lock, wsock>>

(***************************************************************************)
(* WebSocketClient: one action per stretch of a call that ends where the   *)
(* call waits for a lock, sleeps, or returns.  connect takes &mut self, so *)
(* it runs only while no other call of the client is in progress, and no   *)
(* other call starts before it has returned.                               *)
(***************************************************************************)
\* the call of task t returns r
WsReturn(t, r) ==
    /\ pc' = [pc EXCEPT ![t] = "idle"]
    /\ ret' = [ret EXCEPT ![t] = r]
    /\ call' = [call EXCEPT ![t] = None]

\* a call of task t starts
WsCall(t) ==
    /\ client = "ws"
    /\ pc[t] = "idle"
    /\ \A u \in Tasks : pc[u] # "connecting"
    /\ calls < MaxWsCalls
    /\ calls' = calls + 1

\* connect() up to its sleep: connection_state = Connecting
Connect(t) ==
    /\ WsCall(t)
    /\ \A u \in Tasks : pc[u] = "idle"
    /\ state_lock = None
    /\ ws_state' = [ws_state EXCEPT !.connection_state = "Connecting"]
    /\ pc' = [pc EXCEPT ![t] = "connecting"]
    /\ call' = [call EXCEPT ![t] = [op |-> "connect"]]
    /\ UNCHANGED <<config, facade, now, caches, cache_key, result, entry, ret, keygen, plugsys_shared, bgtasks,
                   hook_i, invoked, subscriptions, outbox, state_lock, subs_lock>>

\* a plausible slip: reconnect_attempts is not reset by connect()
ConnectedKeepingAttempts(t) ==
    /\ pc[t] = "connecting"
    /\ state_lock = None
    /\ ws_state' = [ws_state EXCEPT !.connection_state = "Connected",
                                    !.last_ping = Some(now)]
    /\ ping_tasks' = ping_tasks + 1
    /\ handler_tasks' = handler_tasks + 1
    /\ WsReturn(t, Ok(Unit))
    /\ UNCHANGED <<config, facade, now, caches, calls, cache_key, result, entry, keygen, plugsys_shared,
                   hook_i, invoked, subscriptions, outbox, state_lock, subs_lock, task_steps>>

\* connect() after its sleep: Connected, reconnect_attempts = 0, last_ping
\* set; start_background_tasks spawns one ping task and one message-handler
\* task and drops their handles; Ok(())
Connected(t) ==
    /\ pc[t] = "connecting"
    /\ state_lock = None
    /\ ws_state' = [ws_state EXCEPT !.connection_state = "Connected",
                                    !.reconnect_attempts = 0,
                                    !.last_ping = Some(now)]
    /\ ping_tasks' = ping_tasks + 1
    /\ handler_tasks' = handler_tasks + 1
    /\ WsReturn(t, Ok(Unit))
    /\ UNCHANGED <<config, facade, now, caches, calls, cache_key, result, entry, keygen, plugsys_shared,
                   hook_i, invoked, subscriptions, outbox, state_lock, subs_lock, task_steps>>

\* a plausible slip: the subscriptions are left in the registry
DisconnectClearKeeping(t) ==
    /\ pc[t] = "disconnect_clear"
    /\ subs_lock = None
    /\ state_lock' = None
    /\ WsReturn(t, Ok(Unit))
    /\ UNCHANGED <<config, facade, now, caches, calls, cache_key, result, entry, keygen, plugsys_shared, bgtasks,
                   hook_i, invoked, ws_state, subscriptions, outbox, subs_lock>>

\* disconnect(): state.write() and connection_state = Disconnected; the
\* guard lives to the end of the function
Disconnect(t) ==
    /\ WsCall(t)
    /\ state_lock = None
    /\ state_lock' = Some(t)
    /\ ws_state' = [ws_state EXCEPT !.connection_state = "Disconnected"]
    /\ pc' = [pc EXCEPT ![t] = "disconnect_clear"]
    /\ call' = [call EXCEPT ![t] = [op |-> "disconnect"]]
    /\ UNCHANGED <<config, facade, now, caches, cache_key, result, entry, ret, keygen, plugsys_shared, bgtasks,
                   hook_i, invoked, subscriptions, outbox, subs_lock>>

\* disconnect(): subscriptions.write() and clear, then Ok(()), which
\* releases both locks
DisconnectClear(t) ==
    /\ pc[t] = "disconnect_clear"
    /\ subs_lock = None
    /\ subscriptions' = EmptyMap
    /\ state_lock' = None
    /\ WsReturn(t, Ok(Unit))
    /\ UNCHANGED <<config, facade, now, caches, calls, cache_key, result, entry, keygen, plugsys_shared, bgtasks,
                   hook_i, invoked, ws_state, outbox, subs_lock>>

\* subscribe(subscription_type, params): the read of connection_state and
\* the guard
SubscribeOf(t, subscription_type, params) ==
    /\ WsCall(t)
    /\ state_lock = None
    /\ IF ~IsConnected(ws_state.connection_state)
       THEN WsReturn(t, WebSocketError(<<"Not connected to WebSocket">>))
       ELSE /\ pc' = [pc EXCEPT ![t] = "generate_id"]
            /\ call' = [call EXCEPT ![t] =
                   [op |-> "subscribe", subscription_type |-> subscription_type,
                    params |-> params]]
            /\ UNCHANGED ret
    /\ UNCHANGED <<config, facade, now, caches, cache_key, result, entry, keygen, plugsys_shared, bgtasks,
                   hook_i, invoked, wsock>>

Subscribe(t) ==
    \E subscription_type \in SubscriptionType, params \in SubscriptionParams :
        SubscribeOf(t, subscription_type, params)

\* subscribe: generate_subscription_id under state.write(), the
\* WSSubscription, and the subscribe envelope handed to send_message
SubscribeSend(t) ==
    /\ pc[t] = "generate_id"
    /\ state_lock = None
    /\ LET generated == GenerateSubscriptionId(ws_state)
           subscription == NewSubscription(generated.id, call[t].subscription_type,
                                           call[t].params, now)
       IN  /\ ws_state' = generated.state
           /\ outbox' = Append(outbox, SubscribeMessage(subscription))
           /\ call' = [call EXCEPT ![t] = [op |-> "subscribe", subscription |-> subscription]]
    /\ pc' = [pc EXCEPT ![t] = "store"]
    /\ UNCHANGED <<config, facade, now, caches, calls, cache_key, result, entry, ret, keygen,
                   plugsys_shared, bgtasks, hook_i, invoked, subscriptions, state_lock,
                   subs_lock>>

\* subscribe: subscriptions.write() and insert, then Ok(subscription)
SubscribeStore(t) ==
    /\ pc[t] = "store"
    /\ subs_lock = None
    /\ subscriptions' = MapInsert(subscriptions, call[t].subscription.id, call[t].subscription)
    /\ WsReturn(t, Ok(call[t].subscription))
    /\ UNCHANGED <<config, facade, now, caches, calls, cache_key, result, entry, keygen, plugsys_shared, bgtasks,
                   hook_i, invoked, ws_state, outbox, state_lock, subs_lock>>

\* unsubscribe(subscription_id): subscriptions.write() and get_mut; an id
\* that is there is marked inactive, another one is an error
UnsubscribeOf(t, subscription_id) ==
    /\ WsCall(t)
    /\ subs_lock = None
    /\ IF subscription_id \in DOMAIN subscriptions
       THEN /\ subs_lock' = Some(t)
            /\ subscriptions' = [subscriptions EXCEPT ![subscription_id].active = FALSE]
            /\ pc' = [pc EXCEPT ![t] = "unsubscribe_send"]
            /\ call' = [call EXCEPT ![t] =
                   [op |-> "unsubscribe", subscription_id |-> subscription_id]]
            /\ UNCHANGED ret
       ELSE /\ WsReturn(t, WebSocketError(<<"Subscription not found: ", subscription_id>>))
            /\ UNCHANGED <<subs_lock, subscriptions>>
    /\ UNCHANGED <<config, facade, now, caches, cache_key, result, entry, keygen, plugsys_shared, bgtasks,
                   hook_i, invoked, ws_state, outbox, state_lock>>

\* the ids a caller can pass to unsubscribe: those it was ever given, and
\* one that was never issued
CallerIds == {outbox[i].id.val : i \in 1 .. Len(outbox)} \cup {UnknownId}

Unsubscribe(t) == \E subscription_id \in CallerIds : UnsubscribeOf(t, subscription_id)

\* a plausible slip: the subscription is marked inactive but stays in the
\* registry
UnsubscribeSendKeeping(t) ==
    /\ pc[t] = "unsubscribe_send"
    /\ outbox' = Append(outbox, UnsubscribeMessage(call[t].subscription_id))
    /\ subs_lock' = None
    /\ WsReturn(t, Ok(Unit))
    /\ UNCHANGED <<config, facade, now, caches, calls, cache_key, result, entry, keygen, plugsys_shared, bgtasks,
                   hook_i, invoked, ws_state, state_lock, subscriptions>>

\* unsubscribe: the unsubscribe envelope handed to send_message, remove,
\* Ok(())
UnsubscribeSend(t) ==
    /\ pc[t] = "unsubscribe_send"
    /\ outbox' = Append(outbox, UnsubscribeMessage(call[t].subscription_id))
    /\ subscriptions' = MapRemove(subscriptions, call[t].subscription_id)
    /\ subs_lock' = None
    /\ WsReturn(t, Ok(Unit))
    /\ UNCHANGED <<config, facade, now, caches, calls, cache_key, result, entry, keygen, plugsys_shared, bgtasks,
                   hook_i, invoked, ws_state, state_lock>>

\* a plausible slip: handle_reconnection without the test of the budget
HandleReconnectionUnbounded(t) ==
    /\ WsCall(t)
    /\ state_lock = None
    /\ ws_state' = [ws_state EXCEPT !.connection_state = "Reconnecting",
                                    !.reconnect_attempts = @ + 1]
    /\ pc' = [pc EXCEPT ![t] = "backoff"]
    /\ call' = [call EXCEPT ![t] =
           [op |-> "handle_reconnection",
            delay |-> BackoffDelay(ws_state.reconnect_attempts + 1)]]
    /\ UNCHANGED ret
    /\ UNCHANGED <<config, facade, now, caches, cache_key, result, entry, keygen, plugsys_shared, bgtasks,
                   hook_i, invoked, subscriptions, outbox, state_lock, subs_lock>>

\* handle_reconnection() up to its sleep, under state.write(): with the
\* budget used up the error is returned; otherwise Reconnecting,
\* reconnect_attempts + 1, and the delay computed from the new counter
HandleReconnection(t) ==
    /\ WsCall(t)
    /\ state_lock = None
    /\ IF ws_state.reconnect_attempts >= MaxReconnectAttempts
       THEN /\ WsReturn(t, WebSocketError(<<"Max reconnection attempts exceeded">>))
            /\ UNCHANGED ws_state
       ELSE /\ ws_state' = [ws_state EXCEPT !.connection_state = "Reconnecting",
                                           !.reconnect_attempts = @ + 1]
            /\ pc' = [pc EXCEPT ![t] = "backoff"]
            /\ call' = [call EXCEPT ![t] =
                   [op |-> "handle_reconnection",
                    delay |-> BackoffDelay(ws_state.reconnect_attempts + 1)]]
            /\ UNCHANGED ret
    /\ UNCHANGED <<config, facade, now, caches, cache_key, result, entry, keygen, plugsys_shared, bgtasks,
                   hook_i, invoked, subscriptions, outbox, state_lock, subs_lock>>

\* handle_reconnection() after its sleep: attempt_connect(), which sleeps,
\* takes state.write(), sets Connected and last_ping, and returns Ok(())
AttemptConnect(t) ==
    /\ pc[t] = "backoff"
    /\ state_lock = None
    /\ ws_state' = [ws_state EXCEPT !.connection_state = "Connected",
                                    !.last_ping = Some(now)]
    /\ WsReturn(t, Ok(Unit))
    /\ UNCHANGED <<config, facade, now, caches, calls, cache_key, result, entry, keygen, plugsys_shared,
                   bgtasks, hook_i, invoked, subscriptions, outbox, state_lock, subs_lock>>

\* a step of a background task
TaskStep ==
    /\ client = "ws"
    /\ task_steps < MaxTaskSteps
    /\ task_steps' = task_steps + 1

\* a plausible slip: a heartbeat that finds the client not Connected starts
\* a reconnection
PingTickReconnecting ==
    /\ TaskStep
    /\ ping_tasks > 0
    /\ state_lock = None
    /\ ws_state' = IF ws_state.connection_state = "Connected"
                   THEN [ws_state EXCEPT !.last_ping = Some(now)]
                   ELSE [ws_state EXCEPT !.connection_state = "Reconnecting",
                                         !.reconnect_attempts = @ + 1]
    /\ UNCHANGED <<config, facade, now, caches, calls, locals, keygen, plugsys, subscriptions, outbox,
                   state_lock, subs_lock, ping_tasks, handler_tasks>>

\* one round of the loop of a ping task: state.write(), and last_ping set
\* when the state is Connected
PingTick ==
    /\ TaskStep
    /\ ping_tasks > 0
    /\ state_lock = None
    /\ ws_state' = IF ws_state.connection_state = "Connected"
                   THEN [ws_state EXCEPT !.last_ping = Some(now)]
                   ELSE ws_state
    /\ UNCHANGED <<config, facade, now, caches, calls, locals, keygen, plugsys, subscriptions, outbox,
                   state_lock, subs_lock, ping_tasks, handler_tasks>>

\* one round of the loop of a message-handler task: with no event_sender
\* set, nothing is sent
HandlerTick ==
    /\ TaskStep
    /\ handler_tasks > 0
    /\ UNCHANGED <<config, facade, now, caches, calls, locals, keygen, plugsys, ws_state, subscriptions,
                   outbox, state_lock, subs_lock, ping_tasks, handler_tasks>>

(***************************************************************************)
(* HyperSimSDK (core/sdk.rs): the facade over the HyperEVMClient, the      *)
(* PluginSystem and the WebSocketClient it builds in new().  The model's   *)
(* SDK is configured without cross-layer data and without configured       *)
(* plugins, so the pipeline holds the two built-in plugins.  The facade    *)
(* holds its WebSocketClient in an Arc and never calls connect(), which    *)
(* takes &mut self: the client of a facade stays in the state new() left   *)
(* it in, and no subscription is ever recorded in active_subscriptions.    *)
(* trace[t] records what the call of task t does, in order:                *)
(*   <<"hook", callback, plugin>>     a plugin callback was invoked        *)
(*   <<"cache_lookup", "hit"/"miss">> get_cached_result answered           *)
(*   <<"remote", "ok"/"err">>         the remote call answered             *)
(*   <<"cache_store">>                cache_result inserted the result     *)
(*   <<"mark_disconnected">>          connection_state = Disconnected      *)
(*   <<"clear_subscriptions">>        subscriptions.clear()                *)
(***************************************************************************)
\* the callbacks one execute_* / shutdown pass invokes: one per name of the
\* order that has a plugin, in that order
HookEvents(callback, order, loaded) ==
    LET names == SelectSeq(order, LAMBDA name : name \in DOMAIN loaded)
    IN  [i \in 1 .. Len(names) |-> <<"hook", callback, names[i]>>]

\* what task t's call has done so far, and one thing more
Traced(t, events) == trace' = [trace EXCEPT ![t] = @ \o events]

\* the facade call of task t returns r
SdkReturn(t, r) ==
    /\ Return(t, r)
    /\ call' = [call EXCEPT ![t] = None]

\* a facade call of task t starts
SdkCall(t) ==
    /\ client = "sdk"
    /\ system = "ready"
    /\ pc[t] = "idle"
    /\ calls < MaxCalls
    /\ calls' = calls + 1

\* simulate(transaction): generate_request_id, then
\* execute_before_simulation up to execution_order.read()
SdkSimulateTx(t, transaction) ==
    /\ SdkCall(t)
    /\ sdk_metrics' = [sdk_metrics EXCEPT !.request_counter = @ + 1]
    /\ CanRead(order_lock)
    /\ order_lock' = ReadLocked(order_lock, t)
    /\ pc' = [pc EXCEPT ![t] = "sdk_before"]
    /\ call' = [call EXCEPT ![t] = [op |-> "simulate", transaction |-> transaction]]
    /\ trace' = [trace EXCEPT ![t] = << >>]
    /\ UNCHANGED <<config, now, caches, cache_key, result, entry, ret, keygen, system, plugins,
                   execution_order, loaded_with, plugins_lock, hook_i, invoked, wsock,
                   sdk_state>>

\* the transaction the facade's callers simulate: one is enough for a
\* lookup to miss, to hit and to find its entry expired
SdkTransactions == {tx \in SimTransactions : tx.to = None /\ tx.value = None}

SdkSimulate(t) == \E transaction \in SdkTransactions : SdkSimulateTx(t, transaction)

\* simulate: execute_before_simulation from plugins.read() on: the
\* before_simulation callback of every plugin, in execution order; errors
\* are logged; both guards are dropped
SdkBeforeHooks(t) ==
    /\ pc[t] = "sdk_before"
    /\ CanRead(plugins_lock)
    /\ Traced(t, HookEvents("before_simulation", execution_order, plugins))
    /\ order_lock' = ReadUnlocked(order_lock, t)
    /\ pc' = [pc EXCEPT ![t] = "sdk_lookup"]
    /\ UNCHANGED <<config, now, caches, calls, cache_key, result, entry, ret, keygen, system,
                   plugins, execution_order, loaded_with, plugins_lock, call, hook_i, invoked,
                   wsock, sdk_state, sdk_metrics>>

\* simulate: hyperevm_client.simulate up to the remote call: the key and
\* get_cached_result; a hit counts cache_hits and is the result
SdkEvmSimulate(t) ==
    /\ pc[t] = "sdk_lookup"
    /\ LET key == GenerateCacheKey(call[t].transaction)
           cached == GetCachedResult(evm_cache, key, now)
       IN  IF cached # None
           THEN /\ metrics' = [metrics EXCEPT !.cache_hits = @ + 1]
                /\ result' = [result EXCEPT ![t] = cached.val]
                /\ Traced(t, << <<"cache_lookup", "hit">> >>)
                /\ pc' = [pc EXCEPT ![t] = "sdk_after_lock"]
                /\ UNCHANGED cache_key
           ELSE /\ cache_key' = [cache_key EXCEPT ![t] = key]
                /\ Traced(t, << <<"cache_lookup", "miss">> >>)
                /\ pc' = [pc EXCEPT ![t] = "sdk_rpc"]
                /\ UNCHANGED <<metrics, result>>
    /\ UNCHANGED <<config, now, evm_cache, core_cache, ai_cache, calls, entry, ret, keygen,
                   plugsys, wsock, sdk_state, sdk_metrics>>

\* simulate: the remote call of hyperevm_client.simulate and its parsing.
\* An error goes through update_error_metrics and is returned; a result is
\* kept for cache_result or, with the cache disabled, counted
SdkSendRpc(t) ==
    /\ pc[t] = "sdk_rpc"
    /\ \E response \in RpcResponses :
         LET sent == SendRpcRequest(response)
             parsed == IF sent.tag = "Ok" THEN ParseSimulationResponse(sent.val) ELSE sent
             serialized == ToValue(parsed.val)
         IN  IF parsed.tag = "Err"
             THEN /\ Traced(t, << <<"remote", "err">> >>)
                  /\ sdk_metrics' = [sdk_metrics EXCEPT !.total_requests = @ + 1,
                                                        !.failed_requests = @ + 1]
                  /\ SdkReturn(t, parsed)
                  /\ UNCHANGED metrics
             ELSE /\ Traced(t, << <<"remote", "ok">> >>)
                  /\ result' = [result EXCEPT ![t] = parsed.val]
                  /\ UNCHANGED <<sdk_metrics, cache_key, ret, call>>
                  /\ IF cache_enabled
                     THEN /\ entry' = [entry EXCEPT ![t] =
                                 IF serialized.tag = "Ok"
                                 THEN NewCacheEntry(serialized.val, now, cache_ttl)
                                 ELSE None]
                          /\ pc' = [pc EXCEPT ![t] = "sdk_cache_result"]
                          /\ UNCHANGED metrics
                     ELSE /\ metrics' = [metrics EXCEPT !.total_requests = @ + 1]
                          /\ pc' = [pc EXCEPT ![t] = "sdk_after_lock"]
                          /\ UNCHANGED entry
    /\ UNCHANGED <<config, now, evm_cache, core_cache, ai_cache, calls, keygen, system, plugins,
                   execution_order, loaded_with, plugins_lock, order_lock, hook_i, invoked,
                   wsock, sdk_state>>

\* simulate: cache_result of hyperevm_client.simulate under the write lock,
\* then total_requests += 1
SdkCacheResult(t) ==
    /\ pc[t] = "sdk_cache_result"
    /\ IF entry[t] # None
       THEN /\ evm_cache' = CacheResultLocked(evm_cache, cache_key[t], entry[t], now)
            /\ Traced(t, << <<"cache_store">> >>)
       ELSE UNCHANGED <<evm_cache, trace>>
    /\ metrics' = [metrics EXCEPT !.total_requests = @ + 1]
    /\ pc' = [pc EXCEPT ![t] = "sdk_after_lock"]
    /\ UNCHANGED <<config, now, core_cache, ai_cache, calls, cache_key, result, entry, ret,
                   keygen, plugsys, wsock, sdk_state, sdk_metrics>>

\* simulate: execute_after_simulation up to execution_order.read()
SdkAfterLock(t) ==
    /\ pc[t] = "sdk_after_lock"
    /\ CanRead(order_lock)
    /\ order_lock' = ReadLocked(order_lock, t)
    /\ pc' = [pc EXCEPT ![t] = "sdk_after"]
    /\ UNCHANGED <<config, now, caches, calls, cache_key, result, entry, ret, keygen, system,
                   plugins, execution_order, loaded_with, plugins_lock, call, hook_i, invoked,
                   wsock, facade>>

\* simulate: execute_after_simulation from plugins.read() on, then
\* update_success_metrics and Ok(result)
SdkAfterHooks(t) ==
    /\ pc[t] = "sdk_after"
    /\ CanRead(plugins_lock)
    /\ Traced(t, HookEvents("after_simulation", execution_order, plugins))
    /\ order_lock' = ReadUnlocked(order_lock, t)
    /\ sdk_metrics' = [sdk_metrics EXCEPT !.total_requests = @ + 1,
                                          !.successful_requests = @ + 1]
    /\ SdkReturn(t, Ok(result[t]))
    /\ UNCHANGED <<config, now, caches, calls, keygen, system, plugins, execution_order,
                   loaded_with, plugins_lock, hook_i, invoked, wsock, sdk_state>>

\* subscribe(subscription_type, params): ws_client.subscribe, whose error
\* is returned; the subscription of a connected client is registered, sent
\* and pushed on active_subscriptions
SdkSubscribeOf(t, subscription_type, params) ==
    /\ SdkCall(t)
    /\ state_lock = None
    /\ subs_lock = None
    /\ trace' = [trace EXCEPT ![t] = << >>]
    /\ IF ~IsConnected(ws_state.connection_state)
       THEN /\ SdkReturn(t, WebSocketError(<<"Not connected to WebSocket">>))
            /\ UNCHANGED <<ws_state, outbox, subscriptions, sdk_state>>
       ELSE LET generated == GenerateSubscriptionId(ws_state)
                subscription == NewSubscription(generated.id, subscription_type, params, now)
            IN  /\ ws_state' = generated.state
                /\ outbox' = Append(outbox, SubscribeMessage(subscription))
                /\ subscriptions' = MapInsert(subscriptions, subscription.id, subscription)
                /\ sdk_state' = [sdk_state EXCEPT !.active_subscriptions =
                                                      Append(@, subscription)]
                /\ SdkReturn(t, Ok(subscription))
    /\ UNCHANGED <<config, now, caches, keygen, plugsys_shared, hook_i, invoked, state_lock,
                   subs_lock, bgtasks, sdk_metrics>>

SdkSubscribe(t) ==
    \E subscription_type \in SubscriptionType, params \in SubscriptionParams :
        SdkSubscribeOf(t, subscription_type, params)

\* unsubscribe(subscription_id): ws_client.unsubscribe, whose error is
\* returned; the subscription of a registered id is sent off, removed and
\* taken from active_subscriptions
SdkUnsubscribeOf(t, subscription_id) ==
    /\ SdkCall(t)
    /\ subs_lock = None
    /\ trace' = [trace EXCEPT ![t] = << >>]
    /\ IF subscription_id \notin DOMAIN subscriptions
       THEN /\ SdkReturn(t, WebSocketError(<<"Subscription not found: ", subscription_id>>))
            /\ UNCHANGED <<outbox, subscriptions, sdk_state>>
       ELSE /\ outbox' = Append(outbox, UnsubscribeMessage(subscription_id))
            /\ subscriptions' = MapRemove(subscriptions, subscription_id)
            /\ sdk_state' = [sdk_state EXCEPT !.active_subscriptions =
                   SelectSeq(@, LAMBDA subscription : subscription.id # subscription_id)]
            /\ SdkReturn(t, Ok(Unit))
    /\ UNCHANGED <<config, now, caches, keygen, plugsys_shared, hook_i, invoked, ws_state,
                   state_lock, subs_lock, bgtasks, sdk_metrics>>

\* the ids a caller of the facade can hold: those of the subscriptions it
\* was handed, and one it was never handed
SdkCallerIds ==
    {sdk_state.active_subscriptions[i].id : i \in 1 .. Len(sdk_state.active_subscriptions)}
        \cup {UnknownId}

SdkUnsubscribe(t) == \E subscription_id \in SdkCallerIds : SdkUnsubscribeOf(t, subscription_id)

\* shutdown(): the loop over active_subscriptions under state.read().  With
\* nothing to unsubscribe the call goes on to disconnect; with a
\* subscription in the list the loop calls unsubscribe under its own read
\* guard
SdkShutdown(t) ==
    /\ SdkCall(t)
    /\ pc' = [pc EXCEPT ![t] = IF sdk_state.active_subscriptions = << >>
                               THEN "sdk_disconnect"
                               ELSE "sdk_unsubscribe"]
    /\ call' = [call EXCEPT ![t] = [op |-> "shutdown"]]
    /\ trace' = [trace EXCEPT ![t] = << >>]
    /\ UNCHANGED <<config, now, caches, cache_key, result, entry, ret, keygen, plugsys_shared,
                   hook_i, invoked, wsock, sdk_state, sdk_metrics>>

\* shutdown: ws_client.disconnect() up to subscriptions.write():
\* state.write() and connection_state = Disconnected
SdkDisconnect(t) ==
    /\ pc[t] = "sdk_disconnect"
    /\ state_lock = None
    /\ state_lock' = Some(t)
    /\ ws_state' = [ws_state EXCEPT !.connection_state = "Disconnected"]
    /\ Traced(t, << <<"mark_disconnected">> >>)
    /\ pc' = [pc EXCEPT ![t] = "sdk_disconnect_clear"]
    /\ UNCHANGED <<config, now, caches, calls, cache_key, result, entry, ret, keygen, plugsys,
                   subscriptions, outbox, subs_lock, bgtasks, sdk_state, sdk_metrics>>

\* shutdown: ws_client.disconnect() from subscriptions.write() on: clear,
\* and both guards dropped
SdkDisconnectClear(t) ==
    /\ pc[t] = "sdk_disconnect_clear"
    /\ subs_lock = None
    /\ subscriptions' = EmptyMap
    /\ state_lock' = None
    /\ Traced(t, << <<"clear_subscriptions">> >>)
    /\ pc' = [pc EXCEPT ![t] = "sdk_plugins_shutdown"]
    /\ UNCHANGED <<config, now, caches, calls, cache_key, result, entry, ret, keygen, plugsys,
                   ws_state, outbox, subs_lock, bgtasks, sdk_state, sdk_metrics>>

\* shutdown: plugin_system.shutdown() up to execution_order.write():
\* plugins.write() and, for every plugin drained from the map, its shutdown
\* callback, whose error is logged
SdkPluginsShutdown(t) ==
    /\ pc[t] = "sdk_plugins_shutdown"
    /\ CanWrite(plugins_lock)
    /\ plugins_lock' = WriteLocked(plugins_lock, t)
    /\ \E order \in DrainOrders(plugins) : Traced(t, HookEvents("shutdown", order, plugins))
    /\ plugins' = EmptyMap
    /\ loaded_with' = EmptyMap
    /\ pc' = [pc EXCEPT ![t] = "sdk_order_clear"]
    /\ UNCHANGED <<config, now, caches, calls, cache_key, result, entry, ret, keygen, system,
                   execution_order, order_lock, call, hook_i, invoked, wsock, sdk_state,
                   sdk_metrics>>

\* shutdown: plugin_system.shutdown() from execution_order.write() on:
\* clear, and both guards dropped; then initialized = false under
\* state.write(), and Ok(())
SdkOrderClear(t) ==
    /\ pc[t] = "sdk_order_clear"
    /\ CanWrite(order_lock)
    /\ execution_order' = << >>
    /\ plugins_lock' = Unlocked
    /\ sdk_state' = [sdk_state EXCEPT !.initialized = FALSE]
    /\ SdkReturn(t, Ok(Unit))
    /\ UNCHANGED <<config, now, caches, calls, keygen, system, plugins, loaded_with, order_lock,
                   hook_i, invoked, wsock, sdk_metrics, trace>>

Next ==
    \/ Tick
    \/ \E t \in Tasks : EvmSimulate(t)
    \/ \E t \in Tasks : EvmSendRpc(t)
    \/ \E t \in Tasks : EvmCacheResult(t)
    \/ \E t \in Tasks : CoreQuery(t)
    \/ \E t \in Tasks : CoreCacheData(t)
    \/ \E t \in Tasks : AiAnalyzeSimulation(t)
    \/ \E t \in Tasks : AiCacheAnalysis(t)
    \/ LoadBuiltinPlugins
    \/ \E t \in Tasks : LoadPlugin(t)
    \/ \E t \in Tasks : LoadPluginStore(t)
    \/ \E t \in Tasks : LoadPluginOrder(t)
    \/ \E t \in Tasks : Execute(t)
    \/ \E t \in Tasks : ExecutePlugins(t)
    \/ \E t \in Tasks : ExecuteLoop(t)
    \/ \E t \in Tasks : ExecuteHookDone(t)
    \/ \E t \in Tasks : UnloadPlugin(t)
    \/ \E t \in Tasks : UnloadPluginOrder(t)
    \/ \E t \in Tasks : HealthCheck(t)
    \/ \E t \in Tasks : Connect(t)
    \/ \E t \in Tasks : Connected(t)
    \/ \E t \in Tasks : Disconnect(t)
    \/ \E t \in Tasks : DisconnectClear(t)
    \/ \E t \in Tasks : Subscribe(t)
    \/ \E t \in Tasks : SubscribeSend(t)
    \/ \E t \in Tasks : SubscribeStore(t)
    \/ \E t \in Tasks : Unsubscribe(t)
    \/ \E t \in Tasks : UnsubscribeSend(t)
    \/ \E t \in Tasks : HandleReconnection(t)
    \/ \E t \in Tasks : AttemptConnect(t)
    \/ PingTick
    \/ HandlerTick
    \/ \E t \in Tasks : ShutdownPlugins(t)
    \/ \E t \in Tasks : ShutdownOrder(t)
    \/ \E t \in Tasks : SdkSimulate(t)
    \/ \E t \in Tasks : SdkBeforeHooks(t)
    \/ \E t \in Tasks : SdkEvmSimulate(t)
    \/ \E t \in Tasks : SdkSendRpc(t)
    \/ \E t \in Tasks : SdkCacheResult(t)
    \/ \E t \in Tasks : SdkAfterLock(t)
    \/ \E t \in Tasks : SdkAfterHooks(t)
    \/ \E t \in Tasks : SdkSubscribe(t)
    \/ \E t \in Tasks : SdkUnsubscribe(t)
    \/ \E t \in Tasks : SdkShutdown(t)
    \/ \E t \in Tasks : SdkDisconnect(t)
    \/ \E t \in Tasks : SdkDisconnectClear(t)
    \/ \E t \in Tasks : SdkPluginsShutdown(t)
    \/ \E t \in Tasks : SdkOrderClear(t)

Spec == Init /\ [][Next]_vars

(***************************************************************************)
(* generate_cache_key as a function of the request: SpecKey draws two      *)
(* requests and lets an evm client compute the key of each.                *)
(***************************************************************************)
InitKey ==
    /\ client = "evm"
    /\ cache_enabled = TRUE
    /\ cache_ttl = MaxTtl
    /\ InitClient
    /\ requests \in [{1, 2} -> TransactionRequest]
    /\ keys = [i \in {1, 2} |-> None]

\* self.generate_cache_key(&requests[i]): a &self method without interior
\* mutation
ComputeKey(i) ==
    /\ keys[i] = None
    /\ keys' = [keys EXCEPT ![i] = Some(GenerateCacheKey(requests[i]))]
    /\ UNCHANGED <<config, facade, now, evm_cache, core_cache, ai_cache, metrics,
                   calls, locals, requests, plugsys, wsock>>

NextKey == \E i \in {1, 2} : ComputeKey(i)

SpecKey == InitKey /\ [][NextKey]_vars

(***************************************************************************)
(* Properties of the caches.                                               *)
(***************************************************************************)
EvmKeys == {GenerateCacheKey(tx) : tx \in SimTransactions}
CoreKeys == {CoreGenerateCacheKey(q) : q \in CrossLayerQuery}
AiKeys == {AiGenerateCacheKey(r) : r \in AnalyzerInputs}

\* the expiry instant of a CachedAnalysis
AiExpiresAt(cached) == cached.timestamp + cached.ttl

\* C1: in every reachable state (any interleaving of puts, lookups, sweeps
\* and clock advances) a lookup of a key whose entry has now > expires_at
\* returns None, although the entry is still in the map.
C1_NeverReturnsExpired ==
    /\ \A k \in DOMAIN evm_cache :
         now > evm_cache[k].expires_at => GetCachedResult(evm_cache, k, now) = None
    /\ \A k \in DOMAIN core_cache :
         now > core_cache[k].expires_at => GetCachedData(core_cache, k, now) = None
    /\ \A k \in DOMAIN ai_cache :
         now > AiExpiresAt(ai_cache[k]) => GetCachedAnalysis(ai_cache, k, now) = None

\* an entry stored with ttl > 0 is past its expiry and still in the map, and
\* a simulate call for its key has missed and is at its remote call
C1_Witness ==
    /\ client = "evm"
    /\ cache_ttl > 0
    /\ \E t \in Tasks :
         /\ pc[t] = "rpc"
         /\ cache_key[t] \in DOMAIN evm_cache
         /\ now > evm_cache[cache_key[t]].expires_at
         /\ metrics.total_requests = 1

\* C2: a lookup returns Some(value) if and only if the key has an entry with
\* now <= expires_at, the value being the stored one; at now = expires_at the
\* value is still returned.  (Stated for the configurations with ttl > 0.)
C2_LookupIffNotPastExpiry ==
    cache_ttl > 0 =>
    /\ \A k \in EvmKeys :
         GetCachedResult(evm_cache, k, now) =
             IF k \in DOMAIN evm_cache /\ now <= evm_cache[k].expires_at
             THEN Some(FromValue(evm_cache[k].data).val) ELSE None
    /\ \A k \in CoreKeys :
         GetCachedData(core_cache, k, now) =
             IF k \in DOMAIN core_cache /\ now <= core_cache[k].expires_at
             THEN Some(core_cache[k]) ELSE None
    /\ \A k \in AiKeys :
         GetCachedAnalysis(ai_cache, k, now) =
             IF k \in DOMAIN ai_cache /\ now <= AiExpiresAt(ai_cache[k])
             THEN Some(ai_cache[k]) ELSE None

\* what the three lookups do at the boundary: the two clients return the
\* value only strictly before expires_at, the analyzer up to and including it
LookupBoundaryObserved ==
    /\ \A k \in EvmKeys :
         GetCachedResult(evm_cache, k, now) =
             IF k \in DOMAIN evm_cache /\ now < evm_cache[k].expires_at
             THEN Some(FromValue(evm_cache[k].data).val) ELSE None
    /\ \A k \in CoreKeys :
         GetCachedData(core_cache, k, now) =
             IF k \in DOMAIN core_cache /\ now < core_cache[k].expires_at
             THEN Some(core_cache[k]) ELSE None
    /\ \A k \in AiKeys :
         GetCachedAnalysis(ai_cache, k, now) =
             IF k \in DOMAIN ai_cache /\ now <= AiExpiresAt(ai_cache[k])
             THEN Some(ai_cache[k]) ELSE None

(***************************************************************************)
(* Steps of a put.  A put is stamped when cache_result / cache_data /      *)
(* cache_analysis builds its entry and takes effect in the step that holds *)
(* the write lock.                                                         *)
(***************************************************************************)
EvmInsertStep(t) ==
    \/ client = "evm" /\ pc[t] = "cache_result" /\ pc'[t] = "idle"
    \/ client = "sdk" /\ pc[t] = "sdk_cache_result" /\ pc'[t] = "sdk_after_lock"
CoreInsertStep(t) == client = "core" /\ pc[t] = "cache_data" /\ pc'[t] = "idle"
AiInsertStep(t) == client = "ai" /\ pc[t] = "cache_analysis" /\ pc'[t] = "idle"

\* C3: a put with ttl > 0 whose entry was stamped at the current instant (no
\* clock advance since) is followed, in the state right after the insert, by
\* a lookup of its key that returns Some of the value put, whether or not
\* the key had an entry before (the put replaces it).
C3_RoundTrip ==
    [][\A t \in Tasks :
         /\ (EvmInsertStep(t) /\ cache_ttl > 0 /\ entry[t].expires_at = now + cache_ttl)
              => GetCachedResult(evm_cache', cache_key[t], now') = Some(result[t])
         /\ (CoreInsertStep(t) /\ cache_ttl > 0 /\ entry[t].expires_at = now + cache_ttl)
              => GetCachedData(core_cache', cache_key[t], now') = Some(entry[t])
         /\ (AiInsertStep(t) /\ entry[t].timestamp = now)
              => GetCachedAnalysis(ai_cache', cache_key[t], now') = Some(entry[t])
      ]_vars

\* a simulate call has stored its result and, with no clock advance, a second
\* simulate call has been answered by the lookup with that same result
C3_Witness ==
    /\ client = "evm"
    /\ cache_ttl > 0
    /\ now = 0
    /\ metrics.total_requests = 1
    /\ metrics.cache_hits = 1
    /\ \A t \in Tasks : pc[t] = "idle" /\ ret[t].tag = "Ok"
    /\ ret["t1"] = ret["t2"]
    /\ \E k \in DOMAIN evm_cache :
         GetCachedResult(evm_cache, k, now) = Some(ret["t1"].val)

\* C4: entries leave a map only in an insert step that leaves the map above
\* its maximum entry count, and every entry that leaves (the one just
\* inserted included) has now > expires_at at that step; an entry with
\* now <= expires_at is never removed.  (Stated for the configurations with
\* ttl > 0.)
C4_SweepRemovesOnlyExpired ==
    [][cache_ttl > 0 =>
       /\ \A k \in DOMAIN evm_cache \ DOMAIN evm_cache' :
            /\ now' > evm_cache[k].expires_at
            /\ \E t \in Tasks :
                 /\ EvmInsertStep(t)
                 /\ MapLen(MapInsert(evm_cache, cache_key[t], entry[t])) > EvmMaxEntries
       /\ \A k \in DOMAIN core_cache \ DOMAIN core_cache' :
            /\ now' > core_cache[k].expires_at
            /\ \E t \in Tasks :
                 /\ CoreInsertStep(t)
                 /\ MapLen(MapInsert(core_cache, cache_key[t], entry[t])) > CoreMaxEntries
       /\ \A k \in DOMAIN ai_cache \ DOMAIN ai_cache' :
            /\ now' > AiExpiresAt(ai_cache[k])
            /\ \E t \in Tasks :
                 /\ AiInsertStep(t)
                 /\ MapLen(MapInsert(ai_cache, cache_key[t], entry[t])) > AiMaxEntries
       /\ \A t \in Tasks :
            /\ (EvmInsertStep(t) /\ now' <= entry[t].expires_at)
                 => cache_key[t] \in DOMAIN evm_cache'
            /\ (CoreInsertStep(t) /\ now' <= entry[t].expires_at)
                 => cache_key[t] \in DOMAIN core_cache'
            /\ (AiInsertStep(t) /\ now' <= AiExpiresAt(entry[t]))
                 => cache_key[t] \in DOMAIN ai_cache'
      ]_vars

\* what the sweeps do: an entry that leaves a map has now >= expires_at (the
\* analyzer's: now > expires_at), in an insert step that leaves the map above
\* its maximum entry count
SweepObserved ==
    [][/\ \A k \in DOMAIN evm_cache \ DOMAIN evm_cache' :
            /\ now' >= evm_cache[k].expires_at
            /\ \E t \in Tasks :
                 /\ EvmInsertStep(t)
                 /\ MapLen(MapInsert(evm_cache, cache_key[t], entry[t])) > EvmMaxEntries
       /\ \A k \in DOMAIN core_cache \ DOMAIN core_cache' :
            /\ now' >= core_cache[k].expires_at
            /\ \E t \in Tasks :
                 /\ CoreInsertStep(t)
                 /\ MapLen(MapInsert(core_cache, cache_key[t], entry[t])) > CoreMaxEntries
       /\ \A k \in DOMAIN ai_cache \ DOMAIN ai_cache' :
            /\ now' > AiExpiresAt(ai_cache[k])
            /\ \E t \in Tasks :
                 /\ AiInsertStep(t)
                 /\ MapLen(MapInsert(ai_cache, cache_key[t], entry[t])) > AiMaxEntries
      ]_vars

(***************************************************************************)
(* Properties of generate_cache_key (under SpecKey).                       *)
(***************************************************************************)
\* the fields of a request that the spec calls relevant
Relevant(transaction) ==
    <<transaction.from, transaction.to, transaction.value, transaction.data>>

\* C5: two requests that agree on from, to, value and data get the same key,
\* whatever their gas, fee, nonce, tx_type and chain_id fields are, and
\* computing keys leaves the client as it was after construction.
C5_KeyDeterminism ==
    /\ \A i \in DOMAIN keys : \A j \in DOMAIN keys :
         (/\ keys[i] # None
          /\ keys[j] # None
          /\ Relevant(requests[i]) = Relevant(requests[j]))
            => keys[i] = keys[j]
    /\ (requests # << >>) => InitClient

\* keys have been computed for two requests that agree on the relevant
\* fields and differ in the others
C5_Witness ==
    /\ requests # << >>
    /\ keys[1] # None
    /\ keys[2] # None
    /\ Relevant(requests[1]) = Relevant(requests[2])
    /\ requests[1].other # requests[2].other
    /\ requests[1].to # None

\* C6: with a hasher that is collision-free on the sequence of values fed to
\* it, two requests that differ in from, to, value or data get different
\* keys.
C6_KeyDistinctness ==
    \A i \in DOMAIN keys : \A j \in DOMAIN keys :
        (/\ keys[i] # None
         /\ keys[j] # None
         /\ Relevant(requests[i]) # Relevant(requests[j]))
           => keys[i] # keys[j]

\* what generate_cache_key does distinguish: requests with different
\* sequences of present relevant strings
PresentStrings(transaction) ==
    LET opt(o) == IF o = None THEN << >> ELSE <<o.val>>
    IN  <<transaction.from>> \o opt(transaction.to) \o opt(transaction.value)
            \o opt(transaction.data)

KeyDistinctnessObserved ==
    \A i \in DOMAIN keys : \A j \in DOMAIN keys :
        (keys[i] # None /\ keys[j] # None)
           => (keys[i] = keys[j] <=> PresentStrings(requests[i]) = PresentStrings(requests[j]))

(***************************************************************************)
(* Properties of the calls that go through the caches.                     *)
(***************************************************************************)
\* a simulate call of task t starts in this step and its lookup misses
EvmMissStep(t) == client = "evm" /\ pc[t] = "idle" /\ pc'[t] = "rpc"

\* C7: a call takes the uncached path (for simulate: dispatches the remote
\* call) only when its key has no entry with now <= expires_at; a call whose
\* key has such an entry is answered from the cache.  The remote call is
\* dispatched only from the step in which the call's own lookup missed.
C7_UnexpiredEntryAnswersCall ==
    [][cache_ttl > 0 =>
       \A t \in Tasks :
         /\ EvmMissStep(t) =>
              /\ GetCachedResult(evm_cache, cache_key'[t], now) = None
              /\ ~(/\ cache_key'[t] \in DOMAIN evm_cache
                   /\ now <= evm_cache[cache_key'[t]].expires_at)
         /\ (client = "core" /\ pc[t] = "idle" /\ pc'[t] = "cache_data") =>
              /\ GetCachedData(core_cache, cache_key'[t], now) = None
              /\ ~(/\ cache_key'[t] \in DOMAIN core_cache
                   /\ now <= core_cache[cache_key'[t]].expires_at)
      ]_vars

\* what the calls do: the uncached path is taken exactly when the key has no
\* entry with now < expires_at
MissObserved ==
    [][\A t \in Tasks :
         /\ EvmMissStep(t) =>
              ~(/\ cache_key'[t] \in DOMAIN evm_cache
                /\ now < evm_cache[cache_key'[t]].expires_at)
         /\ (client = "core" /\ pc[t] = "idle" /\ pc'[t] = "cache_data") =>
              ~(/\ cache_key'[t] \in DOMAIN core_cache
                /\ now < core_cache[cache_key'[t]].expires_at)
      ]_vars

\* the error kinds of send_rpc_request and parse_simulation_response
RemoteErrors == {"Network", "Serialization", "Simulation"}

\* C8: with cache_enabled = false no entry is ever stored, no call is ever
\* answered from a cache or reaches a cache write, every call that starts
\* goes to the uncached path, and an error is returned only by the step
\* that makes the remote call, with one of its error kinds (the facade's
\* subscribe and unsubscribe, which go through no cache, return the errors
\* of the WebSocket client).
C8_DisabledCacheAlwaysMisses ==
    [][~cache_enabled =>
         /\ evm_cache' = EmptyMap
         /\ core_cache' = EmptyMap
         /\ metrics'.cache_hits = 0
         /\ \A t \in Tasks :
              /\ pc'[t] \notin {"cache_result", "cache_data", "sdk_cache_result"}
              /\ entry'[t] = None
              /\ (client = "evm" /\ pc[t] = "idle" /\ calls' # calls /\ ret'[t] # ret[t])
                   => pc'[t] = "rpc"
              /\ (pc[t] = "sdk_lookup" /\ pc'[t] # "sdk_lookup") => pc'[t] = "sdk_rpc"
              /\ (client = "core" /\ pc[t] = "idle" /\ pc'[t] = "idle" /\ ret'[t] # ret[t])
                   => \E query \in CrossLayerQuery : ret'[t] = Ok(MockCrossLayerData(query))
              /\ (ret'[t].tag = "Err" /\ ret'[t].kind # "WebSocket") =>
                   /\ ret'[t].kind \in RemoteErrors
                   /\ (ret'[t] # ret[t] => pc[t] \in {"rpc", "sdk_rpc"})
      ]_vars

\* with the cache disabled two simulate calls have completed, both through
\* the remote call, and the cache is empty
C8_Witness ==
    /\ client = "evm"
    /\ ~cache_enabled
    /\ metrics.total_requests = 2
    /\ metrics.cache_hits = 0
    /\ evm_cache = EmptyMap
    /\ \A t \in Tasks : pc[t] = "idle" /\ ret[t].tag = "Ok"

\* C9: the entry built by a put is stamped expires_at = now + ttl in the step
\* that builds it and is not touched while the put waits for the write lock;
\* an entry appears in a map, or an entry of a map changes, only in the
\* insert step of a put for its key, and it is then that put's entry; a step
\* that answers a call from the cache changes no map.
C9_NoSlidingExpiration ==
    [][/\ \A t \in Tasks :
            /\ (pc[t] = "rpc" /\ pc'[t] = "cache_result")
                 => entry'[t].expires_at = now + cache_ttl
            /\ (pc[t] = "sdk_rpc" /\ pc'[t] = "sdk_cache_result")
                 => entry'[t].expires_at = now + cache_ttl
            /\ (pc[t] = "idle" /\ pc'[t] = "cache_data")
                 => entry'[t].expires_at = now + cache_ttl
            /\ (pc[t] = "idle" /\ pc'[t] = "cache_analysis")
                 => AiExpiresAt(entry'[t]) = now + AiTtl
            /\ (pc[t] = pc'[t]
                    /\ pc[t] \in {"cache_result", "cache_data", "cache_analysis",
                                 "sdk_cache_result"})
                 => entry'[t] = entry[t]
       /\ \A k \in DOMAIN evm_cache' :
            (k \notin DOMAIN evm_cache \/ evm_cache'[k] # evm_cache[k])
              => \E t \in Tasks :
                   EvmInsertStep(t) /\ cache_key[t] = k /\ evm_cache'[k] = entry[t]
       /\ \A k \in DOMAIN core_cache' :
            (k \notin DOMAIN core_cache \/ core_cache'[k] # core_cache[k])
              => \E t \in Tasks :
                   CoreInsertStep(t) /\ cache_key[t] = k /\ core_cache'[k] = entry[t]
       /\ \A k \in DOMAIN ai_cache' :
            (k \notin DOMAIN ai_cache \/ ai_cache'[k] # ai_cache[k])
              => \E t \in Tasks :
                   AiInsertStep(t) /\ cache_key[t] = k /\ ai_cache'[k] = entry[t]
       /\ (\E t \in Tasks : pc[t] = "idle" /\ pc'[t] = "idle" /\ calls' # calls)
            => <<evm_cache, core_cache, ai_cache>>' = <<evm_cache, core_cache, ai_cache>>
      ]_vars

\* a simulate call has been answered from the cache, the clock has advanced
\* since, and the entry still carries the expiry of the put that created it
C9_Witness ==
    /\ client = "evm"
    /\ cache_ttl > 0
    /\ metrics.cache_hits = 1
    /\ now > 0
    /\ \E k \in DOMAIN evm_cache : evm_cache[k].expires_at = cache_ttl

\* C10: the insert step of a put leaves under its key exactly the entry that
\* put built (value and expiry), whatever entry another put stored there
\* before, so that after two concurrent puts for one key the map holds the
\* entry of the one that took the write lock last; entries of other keys are
\* not modified and lookups of other keys return what they returned before.
C10_LastWriteWins ==
    [][\A t \in Tasks :
         /\ EvmInsertStep(t) =>
              /\ cache_key[t] \in DOMAIN evm_cache' => evm_cache'[cache_key[t]] = entry[t]
              /\ GetCachedResult(evm_cache', cache_key[t], now')
                   = GetCachedResult(MapInsert(EmptyMap, cache_key[t], entry[t]), cache_key[t], now')
              /\ \A k \in DOMAIN evm_cache \ {cache_key[t]} :
                   /\ k \in DOMAIN evm_cache' => evm_cache'[k] = evm_cache[k]
                   /\ GetCachedResult(evm_cache', k, now') = GetCachedResult(evm_cache, k, now')
         /\ CoreInsertStep(t) =>
              /\ cache_key[t] \in DOMAIN core_cache' => core_cache'[cache_key[t]] = entry[t]
              /\ GetCachedData(core_cache', cache_key[t], now')
                   = GetCachedData(MapInsert(EmptyMap, cache_key[t], entry[t]), cache_key[t], now')
              /\ \A k \in DOMAIN core_cache \ {cache_key[t]} :
                   /\ k \in DOMAIN core_cache' => core_cache'[k] = core_cache[k]
                   /\ GetCachedData(core_cache', k, now') = GetCachedData(core_cache, k, now')
      ]_vars

\* two simulate calls for one key both missed, both made the remote call and
\* got different results, and both puts have completed: one entry is left
C10_Witness ==
    /\ client = "evm"
    /\ cache_ttl > 0
    /\ now = 0
    /\ metrics.total_requests = 2
    /\ metrics.cache_hits = 0
    /\ \A t \in Tasks : pc[t] = "idle" /\ ret[t].tag = "Ok"
    /\ ret["t1"] # ret["t2"]
    /\ MapLen(evm_cache) = 1
    /\ \E k \in DOMAIN evm_cache : \E t \in Tasks :
         evm_cache[k] = NewCacheEntry(ToValue(ret[t].val).val, 0, cache_ttl)

(***************************************************************************)
(* Properties of PluginSystem.                                             *)
(***************************************************************************)
\* no load_plugin, unload_plugin or shutdown call is between its two locks
PluginsQuiescent ==
    \A t \in Tasks :
        pc[t] \notin {"load_order", "unload_order", "shutdown_order", "sdk_order_clear"}

\* C11: after any sequence of plugin loads and unloads the execution order
\* lists the loaded plugins by ascending priority, plugins of equal priority
\* in the order in which they were loaded.
C11_OrderedByPriority ==
    (client = "plugins" /\ system = "ready" /\ PluginsQuiescent) =>
      \A i \in 1 .. Len(execution_order) : \A j \in 1 .. Len(execution_order) :
        i < j =>
          LET first == loaded_with[execution_order[i]]
              second == loaded_with[execution_order[j]]
          IN  \/ first.priority < second.priority
              \/ first.priority = second.priority /\ first.seq < second.seq

\* what update_execution_order does: the execution order lists the loaded
\* plugins in the order in which they were loaded
ExecutionOrderObserved ==
    (client = "plugins" /\ system = "ready" /\ PluginsQuiescent) =>
      /\ {execution_order[i] : i \in 1 .. Len(execution_order)} = DOMAIN loaded_with
      /\ \A i \in 1 .. Len(execution_order) : \A j \in 1 .. Len(execution_order) :
           i < j => loaded_with[execution_order[i]].seq < loaded_with[execution_order[j]].seq

\* task t is inside execute_before_simulation / execute_after_simulation /
\* execute_on_error
InPipelineCall(t) == pc[t] \in {"exec_plugins", "exec_loop", "exec_hook"}

\* the names of the plugins whose callbacks task t's call invoked, in order
InvokedPlugins(t) == [i \in 1 .. Len(invoked[t]) |-> invoked[t][i].plugin]

\* C12: whatever the callbacks return, a pipeline call goes on to the next
\* plugin after every callback, and when it returns it returns Ok and has
\* invoked the callback of every plugin of the execution order, in order.
C12_FaultIsolation ==
    [][\A t \in Tasks :
         /\ (pc[t] = "exec_hook" /\ pc'[t] # "exec_hook")
              => (pc'[t] = "exec_loop" /\ hook_i'[t] = hook_i[t] + 1)
         /\ (InPipelineCall(t) /\ pc'[t] = "idle")
              => /\ ret'[t] = Ok(Unit)
                 /\ InvokedPlugins(t) = execution_order
                 /\ \A i \in 1 .. Len(invoked[t]) : invoked[t][i].callback = call[t].op
      ]_vars

\* a pipeline call has returned Ok after the callback of the first plugin
\* failed and the callback of the second plugin was invoked all the same
C12_Witness ==
    \E t \in Tasks :
      /\ client = "plugins"
      /\ pc[t] = "idle"
      /\ ret[t] = Ok(Unit)
      /\ Len(invoked[t]) = 2
      /\ invoked[t][1].callback = "before_simulation"
      /\ invoked[t][1].outcome.tag = "Err"
      /\ invoked[t][2].callback = "before_simulation"

\* load_plugin(cfg) fails: the name is not a known plugin kind, or the
\* plugin's initialize returned an error
LoadFails(t, cfg) ==
    /\ cfg.enabled
    /\ \/ cfg.name \notin KnownPlugins
       \/ /\ Len(invoked'[t]) = 1
          /\ invoked'[t][1].callback = "initialize"
          /\ invoked'[t][1].outcome.tag = "Err"

C14_BuiltinsLoadedAtConstruction ==
    [][(system = "new" /\ system' = "ready")
         => /\ DOMAIN plugins' = {"logging", "metrics"}
            /\ execution_order' = <<"logging", "metrics">>
            /\ calls' = 0
            /\ \A t \in Tasks : pc'[t] = "idle"
      ]_vars

\* new() has returned and no caller has called yet
C14_Witness ==
    /\ client = "plugins"
    /\ system = "ready"
    /\ calls = 0
    /\ execution_order = <<"logging", "metrics">>
    /\ DOMAIN plugins = {"logging", "metrics"}

\* the names of a sequence of names
Names(order) == {order[i] : i \in 1 .. Len(order)}

\* C15: unload_plugin(name) of a loaded plugin takes it out of the plugin
\* map and calls its shutdown callback; when the call returns, it returns Ok
\* whatever shutdown returned, the name is in neither the map nor the
\* execution order, and the other plugins are where they were, in the same
\* relative order.
C15_UnloadRemovesAndReturnsOk ==
    [][\A t \in Tasks :
         /\ \A name \in DOMAIN plugins :
              UnloadPluginOf(t, name)
                => /\ DOMAIN plugins' = DOMAIN plugins \ {name}
                   /\ \A other \in DOMAIN plugins' : plugins'[other] = plugins[other]
                   /\ Len(invoked'[t]) = 1
                   /\ invoked'[t][1].plugin = name
                   /\ invoked'[t][1].callback = "shutdown"
         /\ (pc[t] = "unload_order" /\ pc'[t] # "unload_order")
              => /\ pc'[t] = "idle"
                 /\ ret'[t] = Ok(Unit)
                 /\ call[t].name \notin DOMAIN plugins'
                 /\ call[t].name \notin Names(execution_order')
                 /\ plugins' = plugins
                 /\ execution_order' =
                        SelectSeq(execution_order, LAMBDA other : other # call[t].name)
      ]_vars

\* unload_plugin("logging") has returned Ok although the shutdown callback
\* failed, and metrics is still loaded and in the execution order
C15_Witness ==
    \E t \in Tasks :
      /\ client = "plugins"
      /\ pc[t] = "idle"
      /\ ret[t] = Ok(Unit)
      /\ Len(invoked[t]) = 1
      /\ invoked[t][1].callback = "shutdown"
      /\ invoked[t][1].plugin = "logging"
      /\ invoked[t][1].outcome.tag = "Err"
      /\ "logging" \notin DOMAIN plugins
      /\ execution_order = <<"metrics">>
      /\ "metrics" \in DOMAIN plugins

\* C16: health_check returns a map over exactly the loaded plugin names,
\* true where the probe of the plugin succeeded and false where it failed,
\* and changes neither the plugin map nor the execution order.
C16_HealthCheckReportsAll ==
    [][\A t \in Tasks :
         HealthCheck(t)
           => /\ pc'[t] = "idle"
              /\ ret'[t].tag = "Ok"
              /\ DOMAIN ret'[t].val = DOMAIN plugins
              /\ \A name \in DOMAIN plugins :
                   ret'[t].val[name] <=> (invoked'[t][1].outcome[name].tag = "Ok")
              /\ plugins' = plugins
              /\ execution_order' = execution_order
      ]_vars

\* health_check has returned false for logging and true for metrics, and
\* both are still loaded
C16_Witness ==
    \E t \in Tasks :
      /\ client = "plugins"
      /\ pc[t] = "idle"
      /\ Len(invoked[t]) = 1
      /\ invoked[t][1].callback = "health_check"
      /\ ret[t].tag = "Ok"
      /\ DOMAIN ret[t].val = {"logging", "metrics"}
      /\ ~ret[t].val["logging"]
      /\ ret[t].val["metrics"]
      /\ DOMAIN plugins = {"logging", "metrics"}
      /\ execution_order = <<"logging", "metrics">>

\* task t is in the for loop of a pipeline call, holding both read guards
InHookLoop(t) == pc[t] \in {"exec_loop", "exec_hook"}

\* C17: in one pipeline call the callbacks run one after the other, in
\* execution order: the plugin map and the execution order do not change
\* while the loop runs, whatever load_plugin and unload_plugin calls were
\* issued; the callback of the plugin at position i starts only when the
\* i - 1 callbacks before it have finished; and when the call returns, the
\* plugins invoked are those that were loaded when the call started, each
\* once, in execution order.
C17_CallbacksSequential ==
    [][\A t \in Tasks :
         /\ InHookLoop(t)
              => /\ plugins' = plugins
                 /\ execution_order' = execution_order
         /\ (pc[t] = "exec_loop" /\ pc'[t] = "exec_hook")
              => Len(invoked[t]) = hook_i[t] - 1
         /\ (pc[t] = "exec_hook" /\ pc'[t] # "exec_hook")
              => /\ Len(invoked'[t]) = hook_i[t]
                 /\ invoked'[t][hook_i[t]].plugin = execution_order[hook_i[t]]
                 /\ SubSeq(invoked'[t], 1, hook_i[t] - 1) = invoked[t]
         /\ (InPipelineCall(t) /\ pc'[t] = "idle")
              => /\ InvokedPlugins(t) = execution_order
                 /\ Names(InvokedPlugins(t)) = call[t].loaded
                 /\ Cardinality(call[t].loaded) = Len(invoked[t])
      ]_vars

\* a pipeline call is between its first and its second callback while a
\* concurrent load_plugin waits for the plugin map
C17_Witness ==
    \E t \in Tasks : \E u \in Tasks \ {t} :
      /\ client = "plugins"
      /\ pc[t] = "exec_hook"
      /\ hook_i[t] = 2
      /\ Len(invoked[t]) = 1
      /\ pc[u] = "load_store"

\* the callbacks of two concurrent pipeline calls interleave: each call has
\* finished its first callback and is in its second
HooksOfTwoCallsInterleave ==
    /\ client = "plugins"
    /\ \A t \in Tasks : pc[t] = "exec_hook" /\ hook_i[t] = 2

(***************************************************************************)
(* Properties of WebSocketClient                                           *)
(***************************************************************************)
\* C18: is_connected is false of every state but Connected, and a subscribe
\* that finds the client in a state other than Connected returns the
\* "Not connected to WebSocket" error, sends no envelope, issues no id and
\* leaves the subscription registry as it was.
C18_ConnectionGuard ==
    /\ \A connection_state \in ConnectionState \ {"Connected"} :
         ~IsConnected(connection_state)
    /\ [][\A t \in Tasks :
            \A subscription_type \in SubscriptionType, params \in SubscriptionParams :
              (/\ SubscribeOf(t, subscription_type, params)
               /\ ws_state.connection_state # "Connected")
                => /\ pc'[t] = "idle"
                   /\ ret'[t] = WebSocketError(<<"Not connected to WebSocket">>)
                   /\ outbox' = outbox
                   /\ subscriptions' = subscriptions
                   /\ ws_state' = ws_state
         ]_vars

\* a subscribe has been refused after subscriptions had been registered and
\* the client disconnected
C18_Witness ==
    \E t \in Tasks :
      /\ client = "ws"
      /\ pc[t] = "idle"
      /\ ret[t] = WebSocketError(<<"Not connected to WebSocket">>)
      /\ ws_state.connection_state = "Disconnected"
      /\ ws_state.message_id_counter > 0

\* the number a sequence of hexadecimal digits stands for
RECURSIVE HexValue(_)
HexValue(digits) ==
    IF digits = << >> THEN 0
    ELSE 16 * HexValue(SubSeq(digits, 1, Len(digits) - 1)) + digits[Len(digits)]

\* the ids issued so far, in the order of issue: those of the subscribe
\* envelopes handed to send_message
IssuedIds ==
    LET envelopes == SelectSeq(outbox, LAMBDA message : message.method = "eth_subscribe")
    IN  [i \in 1 .. Len(envelopes) |-> envelopes[i].id.val]

\* C19: the ids issued by one client are pairwise distinct and strictly
\* increasing in the order of issue, whatever the interleaving of the
\* subscribe calls and whatever disconnect and connect calls come between
\* them: the counter the ids are formatted from counts the ids issued and
\* is never reset, and two subscribe calls never return the same id.
C19_IdsUniqueAndIncreasing ==
    /\ \A i \in 1 .. Len(IssuedIds) : \A j \in 1 .. Len(IssuedIds) :
         i < j => /\ IssuedIds[i] # IssuedIds[j]
                  /\ HexValue(IssuedIds[i][2]) < HexValue(IssuedIds[j][2])
    /\ \A t \in Tasks : \A u \in Tasks \ {t} :
         (pc[t] = "store" /\ pc[u] = "store")
           => call[t].subscription.id # call[u].subscription.id
    /\ \A id \in DOMAIN subscriptions : \E i \in 1 .. Len(IssuedIds) : IssuedIds[i] = id
    /\ ws_state.message_id_counter = Len(IssuedIds)

\* a second id has been issued after a disconnect and a connect: the first
\* subscription is gone, the second is registered, and their ids differ
C19_Witness ==
    /\ client = "ws"
    /\ Len(IssuedIds) = 2
    /\ Len(outbox) = 2
    /\ DOMAIN subscriptions = {IssuedIds[2]}
    /\ ws_state.connection_state = "Connected"
    /\ \A t \in Tasks : pc[t] = "idle"

\* two concurrent subscribe calls hold their ids at the same time
ConcurrentSubscribesObserved ==
    /\ client = "ws"
    /\ \A t \in Tasks : pc[t] = "store"

\* C20: disconnect() sets Disconnected whatever the connection state was,
\* the state stays Disconnected until the call returns, and in the step in
\* which the call returns the subscription registry is empty and the state
\* is Disconnected; no envelope is sent on the way.
C20_DisconnectClearsSubscriptions ==
    [][\A t \in Tasks :
         /\ Disconnect(t)
              => /\ ws_state'.connection_state = "Disconnected"
                 /\ outbox' = outbox
         /\ pc[t] = "disconnect_clear"
              => ws_state.connection_state = "Disconnected"
         /\ (pc[t] = "disconnect_clear" /\ pc'[t] # "disconnect_clear")
              => /\ pc'[t] = "idle"
                 /\ ret'[t] = Ok(Unit)
                 /\ ws_state'.connection_state = "Disconnected"
                 /\ subscriptions' = EmptyMap
                 /\ outbox' = outbox
      ]_vars

\* disconnect() has returned after two subscriptions had been registered:
\* the registry is empty and no unsubscribe envelope was sent
C20_Witness ==
    /\ client = "ws"
    /\ \A t \in Tasks : pc[t] = "idle"
    /\ ws_state.connection_state = "Disconnected"
    /\ Len(IssuedIds) = 2
    /\ Len(outbox) = 2
    /\ subscriptions = EmptyMap

\* disconnect() is called while the client is Disconnected already
DisconnectWhileDisconnectedObserved ==
    /\ client = "ws"
    /\ ws_state.connection_state = "Disconnected"
    /\ ws_state.message_id_counter = 0
    /\ \E t \in Tasks : pc[t] = "disconnect_clear"

\* the "Subscription not found: {id}" error of unsubscribe
NotFound(subscription_id) == WebSocketError(<<"Subscription not found: ", subscription_id>>)

\* C21: unsubscribe(id) of an id that is not registered returns the
\* subscription-not-found error and changes neither the registry nor the
\* outbox; unsubscribe(id) of a registered id sends one unsubscribe envelope
\* for it and, when it returns Ok, has removed that subscription and no
\* other, so that get_subscriptions no longer returns it.
C21_UnsubscribeRemovesExactlyOne ==
    [][\A t \in Tasks :
         /\ \A subscription_id \in CallerIds :
              (UnsubscribeOf(t, subscription_id) /\ subscription_id \notin DOMAIN subscriptions)
                => /\ pc'[t] = "idle"
                   /\ ret'[t] = NotFound(subscription_id)
                   /\ subscriptions' = subscriptions
                   /\ outbox' = outbox
         /\ (pc[t] = "unsubscribe_send" /\ pc'[t] # "unsubscribe_send")
              => /\ pc'[t] = "idle"
                 /\ ret'[t] = Ok(Unit)
                 /\ call[t].subscription_id \in DOMAIN subscriptions
                 /\ outbox' = Append(outbox, UnsubscribeMessage(call[t].subscription_id))
                 /\ DOMAIN subscriptions' = DOMAIN subscriptions \ {call[t].subscription_id}
                 /\ \A id \in DOMAIN subscriptions' : subscriptions'[id] = subscriptions[id]
                 /\ \A subscription \in GetSubscriptions(subscriptions') :
                      subscription.id # call[t].subscription_id
      ]_vars

\* a second unsubscribe of an id has failed with not-found: the id was
\* issued, an unsubscribe envelope was sent for it, and it is not registered
C21_Witness ==
    \E t \in Tasks : \E i \in 1 .. Len(outbox) : \E j \in 1 .. Len(outbox) :
      /\ client = "ws"
      /\ pc[t] = "idle"
      /\ outbox[i].method = "eth_subscribe"
      /\ outbox[j] = UnsubscribeMessage(outbox[i].id.val)
      /\ ret[t] = NotFound(outbox[i].id.val)
      /\ ws_state.connection_state = "Connected"
      /\ outbox[i].id.val \notin DOMAIN subscriptions

\* C22: a new client is Disconnected; connect() sets Connecting, and the
\* state is still Connecting when connect() goes on to set Connected, with
\* reconnect_attempts 0 and last_ping recorded, and returns Ok.
C22_ConnectPassesThroughConnecting ==
    /\ client = "ws" => ws_state.connection_state = "Disconnected"
    /\ [][\A t \in Tasks :
            /\ Connect(t) => ws_state'.connection_state = "Connecting"
            /\ (pc[t] = "connecting" /\ pc'[t] = "connecting")
                 => ws_state'.connection_state = "Connecting"
            /\ (pc[t] = "connecting" /\ pc'[t] # "connecting")
                 => /\ ws_state.connection_state = "Connecting"
                    /\ ws_state'.connection_state = "Connected"
                    /\ ws_state'.reconnect_attempts = 0
                    /\ ws_state'.last_ping # None
                    /\ pc'[t] = "idle"
                    /\ ret'[t] = Ok(Unit)
         ]_vars

\* connect() has returned on a client whose reconnect budget had been used
\* up before: the counter is 0 again
C22_Witness ==
    /\ client = "ws"
    /\ \A t \in Tasks : pc[t] = "idle"
    /\ \E t \in Tasks : ret[t] = WebSocketError(<<"Max reconnection attempts exceeded">>)
    /\ \E t \in Tasks : ret[t] = Ok(Unit)
    /\ ping_tasks = 1
    /\ ws_state.connection_state = "Connected"
    /\ ws_state.reconnect_attempts = 0
    /\ ws_state.last_ping # None

\* the error handle_reconnection returns when the budget is used up
BudgetExhausted == WebSocketError(<<"Max reconnection attempts exceeded">>)

\* C23: on a client that is Connected or Reconnecting, a
\* handle_reconnection that finds reconnect_attempts below
\* max_reconnect_attempts sets Reconnecting; one that finds the budget used
\* up sets the Error state and returns the fatal error.
C23_ReconnectingOrError ==
    [][\A t \in Tasks :
         (HandleReconnection(t) /\ ws_state.connection_state \in {"Connected", "Reconnecting"})
           => IF ws_state.reconnect_attempts < MaxReconnectAttempts
              THEN ws_state'.connection_state = "Reconnecting"
              ELSE /\ ws_state'.connection_state = "Error"
                   /\ ret'[t] = BudgetExhausted
      ]_vars

\* C24: reconnect_attempts never exceeds max_reconnect_attempts, also with
\* concurrent handle_reconnection calls, and a handle_reconnection that
\* finds the budget used up returns the error in that same step, without
\* sleeping or attempting to connect, and leaves the state as it was.
C24_ReconnectionBudget ==
    /\ [](ws_state.reconnect_attempts <= MaxReconnectAttempts)
    /\ [][\A t \in Tasks :
            /\ HandleReconnection(t)
                 => ws_state'.reconnect_attempts <= MaxReconnectAttempts
            /\ (HandleReconnection(t) /\ ws_state.reconnect_attempts >= MaxReconnectAttempts)
                 => /\ pc'[t] = "idle"
                    /\ ret'[t] = BudgetExhausted
                    /\ ws_state' = ws_state
         ]_vars

\* a handle_reconnection has been refused with the budget used up
C24_Witness ==
    \E t \in Tasks :
      /\ client = "ws"
      /\ pc[t] = "idle"
      /\ ret[t] = BudgetExhausted
      /\ ws_state.reconnect_attempts = MaxReconnectAttempts

\* two handle_reconnection calls wait out their delays at the same time
ConcurrentReconnectionsObserved ==
    /\ client = "ws"
    /\ \A t \in Tasks : pc[t] = "backoff"

\* C25: whenever the state becomes Connected, through connect() or through
\* attempt_connect(), reconnect_attempts is 0.
C25_AttemptsResetOnConnected ==
    [][(ws_state.connection_state # "Connected" /\ ws_state'.connection_state = "Connected")
         => ws_state'.reconnect_attempts = 0
      ]_vars

\* task t's step is a subscribe refused for the connection state, or an
\* unsubscribe refused for an id that is not registered
MisuseRefused(t) ==
    \/ /\ \E subscription_type \in SubscriptionType, params \in SubscriptionParams :
            SubscribeOf(t, subscription_type, params)
       /\ ~IsConnected(ws_state.connection_state)
    \/ \E subscription_id \in CallerIds \ DOMAIN subscriptions :
            UnsubscribeOf(t, subscription_id)

\* C26: a subscribe refused because the client is not connected, and an
\* unsubscribe refused because the id is unknown, return an error of the
\* Validation class.
C26_MisuseIsValidationError ==
    [][\A t \in Tasks :
         MisuseRefused(t) => (ret'[t].tag = "Err" /\ ret'[t].kind = "Validation")
      ]_vars

\* disconnect() has completed and the client has not been connected since
Disconnected ==
    /\ ws_state.connection_state = "Disconnected"
    /\ \A t \in Tasks : pc[t] # "disconnect_clear"

\* C28: at any time at most one ping task exists, however often connect()
\* was called, and once disconnect() has completed no ping task and no
\* message-handler task takes a step.
C28_BackgroundTasksStopped ==
    /\ [](ping_tasks <= 1)
    /\ [][Disconnected => task_steps' = task_steps]_vars

\* a background task takes a step after disconnect() has completed
TaskStepAfterDisconnectObserved ==
    /\ client = "ws"
    /\ Disconnected
    /\ ping_tasks > 0
    /\ task_steps > 0
    /\ ws_state.last_ping # None

(***************************************************************************)
(* The facade: shutdown and the data flow of simulate                      *)
(***************************************************************************)
\* task t is inside shutdown() and its call has done the named thing
ShutdownDid(t, event) ==
    /\ pc[t] \in {"sdk_disconnect", "sdk_disconnect_clear", "sdk_plugins_shutdown",
                  "sdk_order_clear"}
    /\ \E i \in 1 .. Len(trace[t]) : trace[t][i] = event

\* C27: shutdown tears down in the order tasks, subscriptions, plugins,
\* Disconnected: while a shutdown is under way there is no state in which
\* it has already marked the manager Disconnected and a subscription is
\* still registered or a plugin is still loaded
C27_ShutdownOrder ==
    \A t \in Tasks :
        (ShutdownDid(t, <<"mark_disconnected">>)
            /\ ws_state.connection_state = "Disconnected")
        => (DOMAIN subscriptions = {} /\ DOMAIN plugins = {})

\* the state C27 fails in: a shutdown that marked the manager Disconnected
\* with both built-in plugins still loaded
ShutdownDisconnectedFirstObserved ==
    \E t \in Tasks :
        /\ ShutdownDid(t, <<"mark_disconnected">>)
        /\ Cardinality(DOMAIN plugins) = 2

\* the positions of trace[t] that hold a callback of the named kind
HookPositions(t, callback) ==
    {i \in 1 .. Len(trace[t]) : trace[t][i][1] = "hook" /\ trace[t][i][2] = callback}

\* the positions of trace[t] that hold an event of the named kind
Positions(t, kind) == {i \in 1 .. Len(trace[t]) : trace[t][i][1] = kind}

\* C29: in every facade simulate call the cache is consulted before any
\* before-hook runs, the before-hooks run only after a lookup that missed
\* and before the remote call, and the result is stored in the cache only
\* after the after-hooks have run
C29_RequestDataFlow ==
    \A t \in Tasks :
        /\ \A i \in HookPositions(t, "before_simulation") :
             /\ \E j \in Positions(t, "cache_lookup") :
                  j < i /\ trace[t][j] = <<"cache_lookup", "miss">>
             /\ \A j \in Positions(t, "remote") : i < j
        /\ \A i \in Positions(t, "cache_store") :
             \A j \in HookPositions(t, "after_simulation") : j < i

\* the events of task t's call
Events(t) == {trace[t][i] : i \in 1 .. Len(trace[t])}

\* the callbacks of one kind task t's call invoked, in order
HooksRun(t, callback) ==
    SelectSeq(trace[t], LAMBDA event : event[1] = "hook" /\ event[2] = callback)

\* C30: when the remote call of a facade simulate fails, the on_error
\* callback of every loaded plugin is invoked, in execution order, before
\* the error is returned; after-hooks are invoked only in calls whose
\* remote call succeeded
C30_OnErrorHooksRun ==
    \A t \in Tasks :
        /\ (pc[t] = "idle" /\ ret[t] # None /\ <<"remote", "err">> \in Events(t))
            => HooksRun(t, "on_error") = HookEvents("on_error", execution_order, plugins)
        /\ HookPositions(t, "after_simulation") # {}
            => <<"remote", "ok">> \in Events(t)

(***************************************************************************)
(* The WebSocket client under concurrency: races of subscribe and of a     *)
(* reconnection with disconnect, the backoff delay, the heartbeat          *)
(***************************************************************************)
\* a subscribe or a disconnect call is in progress
SubscribeOrDisconnectInProgress ==
    \E t \in Tasks : pc[t] \in {"generate_id", "store", "disconnect_clear"}

\* C34: a subscribe that races with disconnect leaves no subscription
\* behind: whenever the state is Disconnected and no subscribe or disconnect
\* call is in progress, the registry is empty
C34_NoSubscriptionSurvivesDisconnect ==
    (ws_state.connection_state = "Disconnected" /\ ~SubscribeOrDisconnectInProgress)
        => DOMAIN subscriptions = {}

\* the race behind C34: a disconnect has returned while a subscribe was
\* between its connected-check and its insertion
SubscribeOvertakenObserved ==
    /\ ws_state.connection_state = "Disconnected"
    /\ \E t \in Tasks : pc[t] = "store"
    /\ \A t \in Tasks : pc[t] # "disconnect_clear"

\* a call of handle_reconnection starts and goes into its backoff sleep
ReconnectionStarts(t) == pc[t] = "idle" /\ pc'[t] = "backoff"

\* C35: disconnect() wins over a reconnection in flight: once disconnect()
\* has returned, the state leaves Disconnected only through connect(), which
\* sets Connecting; a handler that was waiting out its backoff never sets
\* it to Connected.  (A handle_reconnection call that starts in the
\* Disconnected state is outside the claim.)
C35_DisconnectWins ==
    [][(ws_state.connection_state = "Disconnected" /\ state_lock = None
            /\ ~\E t \in Tasks : ReconnectionStarts(t))
        => ws_state'.connection_state \in {"Disconnected", "Connecting"}]_vars

\* C36: the retry made when reconnect_attempts = k waits
\* base_delay * backoff^k, computed from the counter before its increment,
\* so that the first retry waits base_delay; and the delays never decrease
C36_BackoffFromCounterBeforeIncrement ==
    /\ \A k \in 0 .. MaxReconnectAttempts : BackoffDelay(k) <= BackoffDelay(k + 1)
    /\ [][\A t \in Tasks :
            ReconnectionStarts(t)
                => call'[t].delay = BackoffDelay(ws_state.reconnect_attempts)]_vars

\* C37: a heartbeat tick changes nothing but last_ping, and that only while
\* the state is Connected: connection_state, reconnect_attempts,
\* message_id_counter and the registry are left alone
C37_HeartbeatFrame ==
    [][PingTick =>
        /\ ws_state' = [ws_state EXCEPT !.last_ping = ws_state'.last_ping]
        /\ ws_state.connection_state # "Connected" => ws_state' = ws_state
        /\ ws_state.connection_state = "Connected" => ws_state'.last_ping = Some(now)
        /\ subscriptions' = subscriptions
        /\ outbox' = outbox]_vars

\* C37's case: background tasks have stepped on a client that is Connected
\* with a subscription, and on one that is not
C37_Witness ==
    /\ task_steps > 0
    /\ ping_tasks > 0
    /\ ws_state.connection_state = "Connected"
    /\ ws_state.message_id_counter > 0
    /\ DOMAIN subscriptions # {}

(***************************************************************************)
(* Lock discipline and deadlock                                            *)
(***************************************************************************)
\* the guarded structures whose lock task t holds
HeldBy(t) ==
    {"plugins" : x \in (IF plugins_lock.writer = Some(t) \/ t \in plugins_lock.readers
                         THEN {1} ELSE {})}
    \cup {"execution_order" : x \in (IF order_lock.writer = Some(t) \/ t \in order_lock.readers
                                     THEN {1} ELSE {})}
    \cup {"state" : x \in (IF state_lock = Some(t) THEN {1} ELSE {})}
    \cup {"subscriptions" : x \in (IF subs_lock = Some(t) THEN {1} ELSE {})}

\* the guarded structure whose lock the next step of task t acquires
WaitsFor(t) ==
    IF pc[t] \in {"load_store", "exec_plugins", "sdk_before", "sdk_after",
                  "sdk_plugins_shutdown"}
    THEN {"plugins"}
    ELSE IF pc[t] \in {"load_order", "unload_order", "shutdown_order", "sdk_after_lock",
                       "sdk_order_clear"}
    THEN {"execution_order"}
    ELSE IF pc[t] \in {"generate_id", "backoff", "sdk_disconnect"}
    THEN {"state"}
    ELSE IF pc[t] \in {"store", "disconnect_clear", "sdk_disconnect_clear"}
    THEN {"subscriptions"}
    ELSE {}

\* C31: no operation holds the lock of one guarded structure while it
\* acquires or holds the lock of another
C31_LockDiscipline ==
    \A t \in Tasks : Cardinality(HeldBy(t) \cup WaitsFor(t)) <= 1

\* task t waits for the plugin map under a read guard of the execution
\* order, task u waits for the execution order under the write guard of the
\* plugin map
WaitForEachOther(t, u) ==
    /\ pc[t] = "exec_plugins"
    /\ t \in order_lock.readers
    /\ pc[u] \in {"load_order", "unload_order", "shutdown_order"}
    /\ plugins_lock.writer = Some(u)

\* C32: the plugin system is deadlock-free: however load_plugin,
\* unload_plugin and shutdown interleave with the execute_* calls, no state
\* is reached in which two calls wait for each other's lock
C32_PluginSystemDeadlockFree ==
    \A t \in Tasks : \A u \in Tasks : ~WaitForEachOther(t, u)

\* the shutdown of task t waits for execution_order.write() under the write
\* guard of the plugin map, and task u, inside simulate, waits for
\* plugins.read() under a read guard of the execution order: neither call
\* has a step left that it can take
ShutdownStuck(t, u) ==
    /\ pc[t] = "sdk_order_clear"
    /\ plugins_lock.writer = Some(t)
    /\ pc[u] \in {"sdk_before", "sdk_after"}
    /\ u \in order_lock.readers

\* C33: HyperSimSDK::shutdown always terminates: from every reachable state
\* of the SDK the call eventually returns; it never reaches a state in
\* which it waits for a lock that will not be released
C33_ShutdownTerminates ==
    \A t \in Tasks : \A u \in Tasks : ~ShutdownStuck(t, u)

\* what the facade's WebSocket client, which is never connected, is left
\* with: no subscription in the registry and none in active_subscriptions
FacadeNeverSubscribed ==
    client = "sdk" =>
        /\ ~IsConnected(ws_state.connection_state)
        /\ DOMAIN subscriptions = {}
        /\ sdk_state.active_subscriptions = << >>
        /\ \A t \in Tasks : pc[t] # "sdk_unsubscribe"

(***************************************************************************)
(* The plugin map, the execution order and the life of a plugin instance   *)
(***************************************************************************)
\* task t's call of PluginSystem::shutdown returns in this step
ShutdownReturns(t) ==
    \/ pc[t] = "shutdown_order" /\ pc'[t] = "idle"
    \/ pc[t] = "sdk_order_clear" /\ pc'[t] = "idle"

\* C38: whenever no load_plugin, unload_plugin or shutdown call is in
\* progress, the execution order holds no name twice and its names are the
\* keys of the plugin map (so that loading a loaded name leaves one entry
\* for it); when shutdown returns, both are empty
C38_MapAndOrderConsistent ==
    /\ [](PluginsQuiescent =>
            /\ \A i \in 1 .. Len(execution_order) : \A j \in 1 .. Len(execution_order) :
                 execution_order[i] = execution_order[j] => i = j
            /\ Names(execution_order) = DOMAIN plugins)
    /\ [][\A t \in Tasks :
            ShutdownReturns(t) => (DOMAIN plugins' = {} /\ execution_order' = << >>)]_vars

\* C38's case: the one call made so far loaded a name that was loaded, and
\* the map and the order hold the two plugins
C38_Witness ==
    /\ client = "plugins"
    /\ calls = 1
    /\ PluginsQuiescent
    /\ \A t \in Tasks : pc[t] = "idle"
    /\ Len(execution_order) = 2
    /\ \E name \in DOMAIN loaded_with : loaded_with[name].seq = 3

\* the plugin instance loaded under the name leaves the pipeline in this
\* step: the name leaves the map, or another instance takes its place
LeavesPipeline(name) ==
    \/ name \notin DOMAIN loaded_with'
    \/ loaded_with'[name].seq # loaded_with[name].seq

\* how often the callbacks recorded for a call hold the shutdown of the
\* plugin
ShutdownsInvoked(callbacks, name) ==
    Cardinality({i \in 1 .. Len(callbacks) :
        callbacks[i].callback = "shutdown" /\ callbacks[i].plugin = name})

\* the same for the events of a call of the facade
ShutdownsTraced(events, name) ==
    Cardinality({i \in 1 .. Len(events) : events[i] = <<"hook", "shutdown", name>>})

\* C39: every plugin instance whose initialization succeeded has its
\* shutdown callback invoked exactly once by the time it leaves the
\* pipeline, be it through unload_plugin, through shutdown, or by being
\* replaced when its name is loaded again
C39_ShutdownOnceOnLeaving ==
    [][\A name \in DOMAIN loaded_with :
         LeavesPipeline(name) =>
           \E t \in Tasks :
             \/ pc[t] = "idle" /\ pc'[t] # "idle" /\ ShutdownsInvoked(invoked'[t], name) = 1
             \/ trace'[t] # trace[t] /\ ShutdownsTraced(trace'[t], name) = 1]_vars

\* the shutdown callback of the plugin loaded under the name is invoked in
\* this step, by task t
ShutdownInvoked(t, name) ==
    /\ name \in DOMAIN plugins
    /\ UnloadPluginOf(t, name) \/ ShutdownPlugins(t) \/ SdkPluginsShutdown(t)

\* a before, after or on-error callback of the plugin is running, or starts
\* in this step
HookRunning(u, name) ==
    /\ pc[u] = "exec_hook"
    /\ execution_order[hook_i[u]] = name

\* C40: no hook runs on a shut-down plugin: however the execute_* calls
\* interleave with unload_plugin and shutdown, a callback starts and runs
\* only on an instance that is in the plugin map, under the read guard that
\* keeps it there; and the step that invokes an instance's shutdown takes it
\* out of the map while no callback of it is running
C40_NoHookOnShutDownPlugin ==
    /\ [](\A u \in Tasks :
            pc[u] = "exec_hook" =>
              /\ hook_i[u] \in 1 .. Len(execution_order)
              /\ execution_order[hook_i[u]] \in DOMAIN plugins
              /\ u \in plugins_lock.readers
              /\ plugins_lock.writer = None)
    /\ [][\A t \in Tasks : \A name \in PluginNames :
            ShutdownInvoked(t, name) =>
              /\ LeavesPipeline(name)
              /\ \A u \in Tasks : ~HookRunning(u, name)]_vars

\* C40's case: a callback of one plugin is running after another task's
\* unload_plugin has shut the other plugin down
C40_Witness ==
    /\ \E u \in Tasks : pc[u] = "exec_hook"
    /\ \E t \in Tasks : \E name \in PluginNames :
         /\ pc[t] = "idle"
         /\ ShutdownsInvoked(invoked[t], name) = 1
         /\ name \notin DOMAIN plugins
    /\ Len(execution_order) = 1

====
